---------------------------- MODULE Spec2Model ----------------------------
(***************************************************************************)
(* Verification model of the voxel engine core:                            *)
(*   - VoxelData  (core/voxel_data.h, core/voxel_data.cpp): per-chunk      *)
(*     block storage with the uniform-chunk optimisation;                  *)
(*   - ThreadPool (util/thread_pool.h, util/thread_pool.cpp): the worker   *)
(*     pool draining a priority queue of jobs;                             *)
(*   - ChunkMeshBuilder (systems/chunk_mesh_builder.cpp): greedy meshing;  *)
(*   - VoxelWorld (voxel_world.cpp): the streamer loading and unloading    *)
(*     chunks around the player.                                           *)
(* Each component has its own specification over the shared variables:     *)
(*   SpecVoxel : any sequence of calls on one VoxelData object;            *)
(*   SpecPool  : the pool's caller thread and its worker threads,          *)
(*               interleaved statement by statement;                       *)
(*   SpecMesh  : one chunk's storage, edited and meshed by one mesher      *)
(*               that also meshes other chunks;                            *)
(*   SpecMerge : the greedy merge of greedy_mesh_face on every layer mask; *)
(*   SpecWorld : the main thread's frames and the workers' jobs;           *)
(*   SpecWorldFair : SpecWorld with the scheduling the engine provides.    *)
(*   SpecPoolFair : SpecPool with fair scheduling of its threads;          *)
(*   SpecPoolRun : a running pool, several threads submitting to it;       *)
(*   SpecWorldClear : SpecWorld with clear_world among the calls;          *)
(*   SpecCache, SpecReseed : the height cache of TerrainGenerator and the  *)
(*               threads inside get_height_at, without and with reseeds;   *)
(*   SpecGenerate, SpecJobs, SpecMask, SpecWorldBox : generate_chunk, the  *)
(*               jobs on the shared mesher, the face masks, a larger box;  *)
(*   SpecObserver : world_to_chunk_pos on the observer's position.         *)
(***************************************************************************)
EXTENDS Integers, Sequences, FiniteSets, TLC

(***************************************************************************)
(* Bounds of the model.                                                    *)
(***************************************************************************)
\* Horizontal chunk extent. The program's value is 16 (voxel_data.h:14);
\* the model checks a scaled-down chunk.
CHUNK_SIZE_XZ == 2
\* Chunk heights range over 1..MaxHeight (the program uses 16, 32 and 64).
MaxHeight == 2
\* Block types range over 0..MaxType (the program's VoxelTypeID is 0..255).
MaxType == 1
\* Number of calls made on the storage in one behaviour.
MaxOps == 3

\* The pool is started with 0..MaxThreads worker threads.
MaxThreads == 1
\* Number of submit_job calls made in one behaviour (job ids 1..MaxJobs).
MaxJobs == 2
\* Job priorities range over 0..MaxPriority.
MaxPriority == 1
\* set_max_pending_jobs is called with 1..MaxPending.
MaxPending == 1
\* Number of ThreadPool::initialize calls made in one behaviour.
MaxInits == 2
\* Number of threads calling submit_job at once on a running pool, and
\* the submit_job calls each of them makes.
MaxSubmitters == 2
MaxSubmits == 2
\* A running pool has 1..MaxRunWorkers worker threads (the world's pool
\* has 2..8).
MaxRunWorkers == 2

\* Largest render_distance explored (the program's default is 8).
MaxRenderDistance == 1
\* Largest vertical_render_distance explored (the program's default is 4).
MaxVerticalDistance == 1
\* VoxelWorld::max_chunks_per_frame. The program's value is 4
\* (voxel_world.cpp:37); the model checks a scaled-down cap.
max_chunks_per_frame == 2

\* Width in bits of a world coordinate; the cache key has twice as many.
\* The program's int32_t has 32 and its uint64_t 64
\* (terrain_generator.h:39-41); the model checks scaled-down integers.
CoordBits == 2
\* Number of threads calling get_height_at at once (the worker threads
\* of the world's pool, 2..8 in the program).
MaxLookers == 2
\* Number of worker threads running the jobs of generate_chunk_async
\* at once (2..8 in the program).
MaxJobWorkers == 2

\* TerrainParams::base_height
base_height == 64
\* TerrainParams::max_height_variation
max_height_variation == 24
\* TerrainParams::water_level
water_level == 64
\* TerrainParams::mountain_threshold (0.6f) and beach_threshold (-0.3f),
\* in tenths
mountain_threshold_tenths == 6
beach_threshold_tenths == -3
\* get_surface_block: height > params.base_height + 15
PeakRise == 15
\* generate_chunk: wy < height - 4
DirtDepth == 4
\* generate_chunk: the quick check samples every 4th column
SampleStep == 4

\* enum BlockType, voxel_types.h
AIR == 0
STONE == 1
DIRT == 2
GRASS == 3
SAND == 4
WATER == 5
GRAVEL == 6
\* ThreadPool::ThreadPool: max_pending_jobs(1000)
DefaultMaxPendingJobs == 1000
\* Chunk heights of the Y-level zones and the zones' upper ends
\* (voxel_data.h:15-21)
DEEP_VOID_CHUNK_HEIGHT == 32
DENSE_TERRAIN_CHUNK_HEIGHT == 16
SKY_CHUNK_HEIGHT == 64
DEEP_VOID_MAX_Y == -64
DENSE_TERRAIN_MAX_Y == 180

Heights == 1..MaxHeight
Types == 0..MaxType
\* Coordinates handed to get/set: on each axis the first and the last
\* in-range index and one step outside the chunk on either side.
CoordsXZ == {-1, 0, CHUNK_SIZE_XZ - 1, CHUNK_SIZE_XZ}
CoordsY == {-1, 0, MaxHeight - 1, MaxHeight}

\* std::unique_ptr<VoxelTypeID[]> holding nullptr
NullPtr == << >>

VARIABLES
    \* ---- VoxelData (voxel_data.h:27-35)
    chunk_size_y,
    total_voxels,
    is_uniform,
    uniform_value,
    data,           \* NullPtr, or the buffer: data[i+1] is C++ data[i]
    \* ---- the last call made on the storage and what it returned
    vlast,
    nops,
    \* ---- ThreadPool (thread_pool.h:42-54)
    num_threads,
    workers,        \* worker id -> position of that thread in worker_thread
    job_queue,      \* the jobs held by the std::priority_queue
    queue_mutex,    \* Free, or the thread holding the mutex
    queue_semaphore,\* the semaphore's count
    should_stop,
    active_jobs,
    pending_jobs,
    max_pending_jobs,
    \* ---- the thread calling initialize / shutdown / submit_job
    caller,         \* its position, the job it submits, what submit returned
    \* ---- bookkeeping of the behaviour
    wjob,           \* worker id -> the job it took from the queue
    queuedAtStop,   \* ids of the jobs that were in the queue at a shutdown()
                    \* call and have not been discarded by it
    next_id,        \* id of the next job submitted
    ninits,         \* initialize calls made so far
    submitters,     \* thread id -> position of that thread in submit_job
    executed,       \* job id -> number of times the job's task was started
    \* ---- ChunkMeshBuilder (chunk_mesh_builder.h:59-63)
    mask,           \* the scratch mask: mask[i+1] is C++ mask[i]
    mask_size,
    \* ---- the build_mesh calls made on the chunk and the merge of a layer
    built,          \* the last build_mesh call on the chunk
    built_before,   \* the build_mesh call on the chunk before that one
    meshed_other,   \* another chunk was meshed since the last call
    layer,          \* the layer whose mask is merged (SpecMerge)
    quads,          \* what the merge of that layer emitted
    \* ---- VoxelWorld (voxel_world.h:42-62)
    chunks,         \* the chunk table: coordinate -> chunk
    chunk_mesh_instances, \* coordinate -> render handle
    children,       \* coordinate -> number of MeshInstance3D nodes made for it,
                    \* added to the scene and not freed
    last_player_chunk,
    render_distance,
    vertical_render_distance,
    use_threading,
    chunks_generated_this_frame,
    \* ---- the engine around the world node
    player,         \* the chunk the player node is in, or NoPlayer
    main_pc,        \* position of the main thread in its frame
    deferred,       \* the call_deferred messages not yet delivered
    \* ---- bookkeeping of the frame
    installed,      \* the create_chunk_mesh_instance calls made since the
                    \* frame began, or by the last set_voxel_at call
    loaded_this_frame, \* the positions generate_chunk_async was called
                    \* with in the load phase under way (empty outside it)
    \* ---- TerrainGenerator (terrain_generator.h:31-36)
    noise,          \* what noise->get_noise_2d returns for each coordinate
    height_cache,   \* the height cache: key -> height
    \* ---- the threads calling get_height_at and what the calls returned
    lookers,        \* thread id -> its position in get_height_at
    returned,       \* coordinate -> the heights get_height_at returned for it
    \* ---- a generate_chunk call: its arguments and the chunk it leaves
    gen_in,
    gen_out,
    \* ---- the generation jobs run by workers on the shared mesher
    jobs,           \* worker id -> its position in the job's task
    \* ---- an observer and the chunk its position was converted to
    observer,       \* the observer's world position
    observer_chunk  \* what world_to_chunk_pos returned for it, or NoChunkPos

voxelVars == <<chunk_size_y, total_voxels, is_uniform, uniform_value, data>>
storageVars == <<chunk_size_y, total_voxels, is_uniform, uniform_value, data, vlast, nops>>
poolVars == <<num_threads, workers, job_queue, queue_mutex, queue_semaphore,
              should_stop, active_jobs, pending_jobs, max_pending_jobs,
              caller, wjob, queuedAtStop, next_id, ninits, submitters, executed>>
mesherVars == <<mask, mask_size, built, built_before, meshed_other, layer, quads>>
worldVars == <<chunks, chunk_mesh_instances, children, last_player_chunk, render_distance,
               vertical_render_distance, use_threading,
               chunks_generated_this_frame, player, main_pc, deferred,
               installed, loaded_this_frame>>
terrainVars == <<noise, height_cache, lookers, returned, gen_in, gen_out, jobs>>
observerVars == <<observer, observer_chunk>>
vars == <<storageVars, poolVars, mesherVars, worldVars, terrainVars, observerVars>>

(***************************************************************************)
(* VoxelData                                                               *)
(***************************************************************************)

\* VoxelData::get_index
GetIndex(x, y, z) == x + y * CHUNK_SIZE_XZ + z * CHUNK_SIZE_XZ * chunk_size_y

\* Mutant: the upper bound of x is tested with > instead of >=.
InBoundsOffByOne(x, y, z) ==
    ~(x < 0 \/ x > CHUNK_SIZE_XZ \/ y < 0 \/ y >= chunk_size_y
        \/ z < 0 \/ z >= CHUNK_SIZE_XZ)

\* The bounds test of VoxelData::set_voxel and VoxelData::_get_voxel
InBounds(x, y, z) ==
    ~(x < 0 \/ x >= CHUNK_SIZE_XZ \/ y < 0 \/ y >= chunk_size_y
        \/ z < 0 \/ z >= CHUNK_SIZE_XZ)

\* Mutant: the memset is left out; make_unique value-initialises to 0.
MemsetBufferZeroed(v, n) == [i \in 1..n |-> 0]

\* std::make_unique<VoxelTypeID[]>(n) followed by std::memset(data, v, n)
MemsetBuffer(v, n) == [i \in 1..n |-> v]

\* Whether data[idx] lies inside the allocated buffer
InBuffer(idx) == data # NullPtr /\ idx >= 0 /\ idx < Len(data)

\* VoxelData::get_voxel: the set of values the read can produce. A read of
\* data[idx] outside the buffer is undefined behaviour: any byte.
GetVoxelOutcomes(x, y, z) ==
    IF is_uniform THEN {uniform_value}
    ELSE IF InBuffer(GetIndex(x, y, z)) THEN {data[GetIndex(x, y, z) + 1]}
    ELSE Types

\* VoxelData::get_voxel for coordinates whose index is inside the buffer
GetVoxel(x, y, z) ==
    IF is_uniform THEN uniform_value ELSE data[GetIndex(x, y, z) + 1]

\* sizeof(VoxelTypeID), VoxelTypeID = uint8_t
SizeofVoxelTypeID == 1

\* VoxelData::get_memory_usage
GetMemoryUsage ==
    IF is_uniform THEN SizeofVoxelTypeID ELSE total_voxels * SizeofVoxelTypeID

\* Chunk::get_voxel: AIR without storage, else VoxelData::get_voxel. The
\* storage exists from Chunk::initialize on.
ChunkGetVoxelOutcomes(has_voxel_data, x, y, z) ==
    IF ~has_voxel_data THEN {AIR} ELSE GetVoxelOutcomes(x, y, z)

Call(op, branch, val, ret) == [op |-> op, branch |-> branch, val |-> val, ret |-> ret]

Tick == nops < MaxOps /\ nops' = nops + 1

\* The storage before construction, in behaviours of the other components.
NoStorage ==
    /\ chunk_size_y = 0 /\ total_voxels = 0 /\ is_uniform = TRUE
    /\ uniform_value = AIR /\ data = NullPtr
    /\ vlast = Call("none", "", AIR, TRUE) /\ nops = 0

\* VoxelData::VoxelData(int32_t chunk_y)
InitVoxel ==
    /\ chunk_size_y \in Heights
    /\ total_voxels = CHUNK_SIZE_XZ * CHUNK_SIZE_XZ * chunk_size_y
    /\ is_uniform = TRUE
    /\ uniform_value = AIR
    /\ data = NullPtr
    /\ vlast = Call("construct", "", AIR, TRUE)
    /\ nops = 0

\* Mutant: initialize forgets data.reset().
InitializeKeepsBuffer(chunk_y) ==
    /\ Tick
    /\ chunk_size_y' = chunk_y
    /\ total_voxels' = CHUNK_SIZE_XZ * CHUNK_SIZE_XZ * chunk_y
    /\ is_uniform' = TRUE
    /\ uniform_value' = AIR
    /\ UNCHANGED data
    /\ vlast' = Call("initialize", "", AIR, TRUE)

\* VoxelData::initialize
Initialize(chunk_y) ==
    /\ Tick
    /\ chunk_size_y' = chunk_y
    /\ total_voxels' = CHUNK_SIZE_XZ * CHUNK_SIZE_XZ * chunk_y
    /\ is_uniform' = TRUE
    /\ uniform_value' = AIR
    /\ data' = NullPtr
    /\ vlast' = Call("initialize", "", AIR, TRUE)

\* VoxelData::clear
Clear ==
    /\ Tick
    /\ is_uniform' = TRUE
    /\ uniform_value' = AIR
    /\ data' = NullPtr
    /\ UNCHANGED <<chunk_size_y, total_voxels>>
    /\ vlast' = Call("clear", "", AIR, TRUE)

\* VoxelData::set_voxel
SetVoxel(x, y, z, type) ==
    /\ Tick
    /\ UNCHANGED <<chunk_size_y, total_voxels>>
    /\ IF ~InBounds(x, y, z)
       THEN \* bounds check: return
            /\ UNCHANGED <<is_uniform, uniform_value, data>>
            /\ vlast' = Call("set", "oob", AIR, TRUE)
       ELSE IF is_uniform /\ type = uniform_value
       THEN \* uniform and same value: do nothing
            /\ UNCHANGED <<is_uniform, uniform_value, data>>
            /\ vlast' = Call("set", "same", AIR, TRUE)
       ELSE IF is_uniform
       THEN \* expand: allocate, memset with the old value, then store
            /\ data' = [MemsetBuffer(uniform_value, total_voxels)
                            EXCEPT ![GetIndex(x, y, z) + 1] = type]
            /\ is_uniform' = FALSE
            /\ UNCHANGED uniform_value
            /\ vlast' = Call("set", "promote", AIR, TRUE)
       ELSE /\ data' = [data EXCEPT ![GetIndex(x, y, z) + 1] = type]
            /\ UNCHANGED <<is_uniform, uniform_value>>
            /\ vlast' = Call("set", "store", AIR, TRUE)

\* Mutant: fill forgets data.reset().
FillKeepsBuffer(type) ==
    /\ Tick
    /\ is_uniform' = TRUE
    /\ uniform_value' = type
    /\ UNCHANGED <<chunk_size_y, total_voxels, data>>
    /\ vlast' = Call("fill", IF is_uniform THEN "on_uniform" ELSE "on_dense", type, TRUE)

\* VoxelData::fill
Fill(type) ==
    /\ Tick
    /\ is_uniform' = TRUE
    /\ uniform_value' = type
    /\ data' = NullPtr
    /\ UNCHANGED <<chunk_size_y, total_voxels>>
    /\ vlast' = Call("fill", IF is_uniform THEN "on_uniform" ELSE "on_dense", type, TRUE)

\* Mutant: the scan is left out; any buffer passes for uniform.
ScanAllEqualAlways(buf, n) == TRUE

\* Mutant: the scan stops one cell short (i < total_voxels - 1).
ScanAllEqualShort(buf, n) == \A i \in 1..(n - 2) : buf[i + 1] = buf[1]

\* The scan loop of VoxelData::check_and_optimize_uniform:
\* for (i = 1; i < total_voxels; i++) if (data[i] != first_value) return false
ScanAllEqual(buf, n) == \A i \in 1..(n - 1) : buf[i + 1] = buf[1]

\* VoxelData::check_and_optimize_uniform
CheckAndOptimizeUniform ==
    /\ Tick
    /\ UNCHANGED <<chunk_size_y, total_voxels>>
    /\ IF is_uniform
       THEN /\ UNCHANGED <<is_uniform, uniform_value, data>>
            /\ vlast' = Call("optimize", "already", uniform_value, TRUE)
       ELSE IF data = NullPtr
       THEN /\ is_uniform' = TRUE
            /\ uniform_value' = AIR
            /\ UNCHANGED data
            /\ vlast' = Call("optimize", "nodata", AIR, TRUE)
       ELSE IF ~ScanAllEqual(data, total_voxels)
       THEN /\ UNCHANGED <<is_uniform, uniform_value, data>>
            /\ vlast' = Call("optimize", "mixed", data[1], FALSE)
       ELSE /\ uniform_value' = data[1]
            /\ is_uniform' = TRUE
            /\ data' = NullPtr
            /\ vlast' = Call("optimize", "freed", data[1], TRUE)

NextVoxel ==
    \/ \E h \in Heights : Initialize(h) /\ UNCHANGED <<observerVars, poolVars, mesherVars, worldVars, terrainVars>>
    \/ Clear /\ UNCHANGED <<observerVars, poolVars, mesherVars, worldVars, terrainVars>>
    \/ \E x \in CoordsXZ, y \in CoordsY, z \in CoordsXZ, t \in Types :
          SetVoxel(x, y, z, t) /\ UNCHANGED <<observerVars, poolVars, mesherVars, worldVars, terrainVars>>
    \/ \E t \in Types : Fill(t) /\ UNCHANGED <<observerVars, poolVars, mesherVars, worldVars, terrainVars>>
    \/ CheckAndOptimizeUniform /\ UNCHANGED <<observerVars, poolVars, mesherVars, worldVars, terrainVars>>

(***************************************************************************)
(* ThreadPool                                                              *)
(***************************************************************************)
WorkerIds == 1..MaxThreads
Priorities == 0..MaxPriority
Free == 0
\* The calling thread's id as a mutex holder (worker w holds it as w).
CallerThread == MaxThreads + 1
NoJob == [id |-> 0, priority |-> 0]

\* Mutant: the comparison is reversed (priority > other.priority).
JobLessReversed(a, b) == a.priority > b.priority

\* Job::operator<
JobLess(a, b) == a.priority < b.priority

\* std::priority_queue<Job>::top: an element no other element is greater
\* than under operator<; which one among equals is unspecified.
QueueTops(q) == {j \in q : \A k \in q : ~JobLess(j, k)}

\* The threads of SpecPoolRun calling submit_job, none inside a call
SubmitterIds == 1..MaxSubmitters
NoSubmitters == [s \in SubmitterIds |-> [pc |-> "idle", job |-> NoJob, calls |-> 0]]
\* The ids of the jobs submitted in one behaviour; no task was started
JobIds == 1..(IF MaxJobs > MaxSubmitters * MaxSubmits THEN MaxJobs
              ELSE MaxSubmitters * MaxSubmits)
NoneExecuted == [i \in JobIds |-> 0]

Idle(ret) == [pc |-> "idle", job |-> NoJob, ret |-> ret, then |-> "idle"]
At(pc) == [caller EXCEPT !.pc = pc]

\* ThreadPool::ThreadPool()
InitPool ==
    /\ num_threads = 0
    /\ workers = [w \in WorkerIds |-> "none"]
    /\ job_queue = {}
    /\ queue_mutex = Free
    /\ queue_semaphore = 0
    /\ should_stop = FALSE
    /\ active_jobs = 0
    /\ pending_jobs = 0
    /\ max_pending_jobs = DefaultMaxPendingJobs
    /\ caller = Idle("none")
    /\ wjob = [w \in WorkerIds |-> NoJob]
    /\ queuedAtStop = {}
    /\ next_id = 1
    /\ ninits = 0
    /\ submitters = NoSubmitters
    /\ executed = NoneExecuted

\* ThreadPool::set_max_pending_jobs, called while configuring the pool
\* (before the first initialize or submit_job call of the behaviour)
SetMaxPendingJobs(max) ==
    /\ caller.pc = "idle"
    /\ ninits = 0 /\ next_id = 1
    /\ max # max_pending_jobs
    /\ max_pending_jobs' = max
    /\ caller' = Idle("none")
    /\ UNCHANGED <<num_threads, workers, job_queue, queue_mutex, queue_semaphore,
                   should_stop, active_jobs, pending_jobs, wjob, queuedAtStop, next_id, ninits>>

---------------------------------------------------------------------------
\* ThreadPool::shutdown, entered from a shutdown() call (then = "idle") or
\* from initialize (then = "init"). First statements: return at once when
\* num_threads == 0, else should_stop.store(true).
ShutdownEnter(then) ==
    /\ queuedAtStop' = queuedAtStop \cup {j.id : j \in job_queue}
    /\ IF num_threads = 0
       THEN /\ caller' = IF then = "idle" THEN Idle("shutdown")
                         ELSE [pc |-> "init", job |-> NoJob, ret |-> "none", then |-> "idle"]
            /\ UNCHANGED should_stop
       ELSE /\ should_stop' = TRUE
            /\ caller' = [pc |-> "sd_post", job |-> NoJob, ret |-> "none", then |-> then]
    /\ UNCHANGED <<num_threads, workers, job_queue, queue_mutex, queue_semaphore,
                   active_jobs, pending_jobs, max_pending_jobs, wjob, next_id>>

\* A call of ThreadPool::shutdown
CallShutdown ==
    /\ caller.pc = "idle"
    /\ ShutdownEnter("idle")
    /\ UNCHANGED ninits

\* shutdown: for (i < num_threads) queue_semaphore->post()
ShutdownPost ==
    /\ caller.pc = "sd_post"
    /\ queue_semaphore' = queue_semaphore + num_threads
    /\ caller' = At("sd_join")
    /\ UNCHANGED <<num_threads, workers, job_queue, queue_mutex, should_stop,
                   active_jobs, pending_jobs, max_pending_jobs, wjob, queuedAtStop, next_id, ninits>>

\* shutdown: wait_to_finish on every worker, workers.clear(), num_threads = 0
ShutdownJoin ==
    /\ caller.pc = "sd_join"
    /\ \A w \in WorkerIds : workers[w] \in {"none", "exited"}
    /\ workers' = [w \in WorkerIds |-> "none"]
    /\ num_threads' = 0
    /\ caller' = At("sd_lock")
    /\ UNCHANGED <<job_queue, queue_mutex, queue_semaphore, should_stop,
                   active_jobs, pending_jobs, max_pending_jobs, wjob, queuedAtStop, next_id, ninits>>

\* shutdown: queue_mutex->lock()
ShutdownLock ==
    /\ caller.pc = "sd_lock"
    /\ queue_mutex = Free
    /\ queue_mutex' = CallerThread
    /\ caller' = At("sd_clear")
    /\ UNCHANGED <<num_threads, workers, job_queue, queue_semaphore, should_stop,
                   active_jobs, pending_jobs, max_pending_jobs, wjob, queuedAtStop, next_id, ninits>>

\* shutdown: pop every job, pending_jobs.store(0), queue_mutex->unlock()
ShutdownClear ==
    /\ caller.pc = "sd_clear"
    /\ job_queue' = {}
    /\ pending_jobs' = 0
    /\ queue_mutex' = Free
    /\ caller' = IF caller.then = "idle" THEN Idle("shutdown")
                 ELSE [pc |-> "init", job |-> NoJob, ret |-> "none", then |-> "idle"]
    /\ UNCHANGED <<num_threads, workers, queue_semaphore, should_stop,
                   active_jobs, max_pending_jobs, wjob, queuedAtStop, next_id, ninits>>

\* A call of ThreadPool::initialize: if (num_threads > 0) shutdown()
CallInitialize ==
    /\ caller.pc = "idle"
    /\ ninits < MaxInits
    /\ ninits' = ninits + 1
    /\ IF num_threads > 0
       THEN ShutdownEnter("init")
       ELSE /\ caller' = [pc |-> "init", job |-> NoJob, ret |-> "none", then |-> "idle"]
            /\ UNCHANGED <<num_threads, workers, job_queue, queue_mutex,
                           queue_semaphore, should_stop, active_jobs, pending_jobs,
                           max_pending_jobs, wjob, queuedAtStop, next_id>>

\* initialize: num_threads = threads, should_stop.store(false), and one
\* started thread per worker
InitializeStart(threads) ==
    /\ caller.pc = "init"
    /\ num_threads' = threads
    /\ should_stop' = FALSE
    /\ workers' = [w \in WorkerIds |-> IF w <= threads THEN "loop" ELSE "none"]
    /\ caller' = Idle("initialize")
    /\ UNCHANGED <<job_queue, queue_mutex, queue_semaphore, active_jobs,
                   pending_jobs, max_pending_jobs, wjob, queuedAtStop,
                   next_id, ninits>>

---------------------------------------------------------------------------
\* A call of ThreadPool::submit_job: if (should_stop.load()) return false
CallSubmit(priority) ==
    /\ caller.pc = "idle"
    /\ next_id <= MaxJobs
    /\ next_id' = next_id + 1
    /\ caller' = IF should_stop THEN Idle("false")
                 ELSE [pc |-> "s_pending", job |-> [id |-> next_id, priority |-> priority],
                       ret |-> "none", then |-> "idle"]
    /\ UNCHANGED <<num_threads, workers, job_queue, queue_mutex, queue_semaphore,
                   should_stop, active_jobs, pending_jobs, max_pending_jobs,
                   wjob, queuedAtStop, ninits>>

\* Mutant: the capacity test uses > instead of >=.
QueueFullOffByOne == pending_jobs > max_pending_jobs

\* submit_job: pending_jobs.load() >= max_pending_jobs
QueueFull == pending_jobs >= max_pending_jobs

\* submit_job: if (QueueFull) return false
SubmitCheckPending ==
    /\ caller.pc = "s_pending"
    /\ caller' = IF QueueFull THEN Idle("false") ELSE At("s_lock")
    /\ UNCHANGED <<num_threads, workers, job_queue, queue_mutex, queue_semaphore,
                   should_stop, active_jobs, pending_jobs, max_pending_jobs,
                   wjob, queuedAtStop, next_id, ninits>>

\* submit_job: queue_mutex->lock()
SubmitLock ==
    /\ caller.pc = "s_lock"
    /\ queue_mutex = Free
    /\ queue_mutex' = CallerThread
    /\ caller' = At("s_enqueue")
    /\ UNCHANGED <<num_threads, workers, job_queue, queue_semaphore, should_stop,
                   active_jobs, pending_jobs, max_pending_jobs, wjob, queuedAtStop, next_id, ninits>>

\* submit_job: job_queue.emplace, pending_jobs.fetch_add(1), unlock
SubmitEnqueue ==
    /\ caller.pc = "s_enqueue"
    /\ job_queue' = job_queue \cup {caller.job}
    /\ pending_jobs' = pending_jobs + 1
    /\ queue_mutex' = Free
    /\ caller' = At("s_post")
    /\ UNCHANGED <<num_threads, workers, queue_semaphore, should_stop,
                   active_jobs, max_pending_jobs, wjob, queuedAtStop, next_id, ninits>>

\* submit_job: queue_semaphore->post(); return true
SubmitPost ==
    /\ caller.pc = "s_post"
    /\ queue_semaphore' = queue_semaphore + 1
    /\ caller' = Idle("true")
    /\ UNCHANGED <<num_threads, workers, job_queue, queue_mutex, should_stop,
                   active_jobs, pending_jobs, max_pending_jobs, wjob, queuedAtStop, next_id, ninits>>

---------------------------------------------------------------------------
WorkerAt(w, pc) == [workers EXCEPT ![w] = pc]

\* worker_thread: while (!should_stop.load())
WorkerLoop(w) ==
    /\ workers[w] = "loop"
    /\ workers' = WorkerAt(w, IF should_stop THEN "exited" ELSE "wait")
    /\ UNCHANGED <<num_threads, job_queue, queue_mutex, queue_semaphore,
                   should_stop, active_jobs, pending_jobs, max_pending_jobs,
                   caller, wjob, queuedAtStop, next_id, ninits>>

\* worker_thread: queue_semaphore->wait()
WorkerWait(w) ==
    /\ workers[w] = "wait"
    /\ queue_semaphore > 0
    /\ queue_semaphore' = queue_semaphore - 1
    /\ workers' = WorkerAt(w, "check")
    /\ UNCHANGED <<num_threads, job_queue, queue_mutex, should_stop,
                   active_jobs, pending_jobs, max_pending_jobs,
                   caller, wjob, queuedAtStop, next_id, ninits>>

\* worker_thread: if (should_stop.load()) break
WorkerCheck(w) ==
    /\ workers[w] = "check"
    /\ workers' = WorkerAt(w, IF should_stop THEN "exited" ELSE "lock")
    /\ UNCHANGED <<num_threads, job_queue, queue_mutex, queue_semaphore,
                   should_stop, active_jobs, pending_jobs, max_pending_jobs,
                   caller, wjob, queuedAtStop, next_id, ninits>>

\* worker_thread: queue_mutex->lock()
WorkerLock(w) ==
    /\ workers[w] = "lock"
    /\ queue_mutex = Free
    /\ queue_mutex' = w
    /\ workers' = WorkerAt(w, "dequeue")
    /\ UNCHANGED <<num_threads, job_queue, queue_semaphore,
                   should_stop, active_jobs, pending_jobs, max_pending_jobs,
                   caller, wjob, queuedAtStop, next_id, ninits>>

\* Mutant: the job taken is not popped from the queue.
WorkerDequeueKeepsJob(w) ==
    /\ workers[w] = "dequeue"
    /\ queue_mutex' = Free
    /\ IF job_queue = {}
       THEN /\ workers' = WorkerAt(w, "loop")
            /\ UNCHANGED <<job_queue, pending_jobs, wjob>>
       ELSE \E job \in QueueTops(job_queue) :
            /\ UNCHANGED job_queue
            /\ pending_jobs' = pending_jobs - 1
            /\ wjob' = [wjob EXCEPT ![w] = job]
            /\ workers' = WorkerAt(w, "begin")
    /\ UNCHANGED <<num_threads, queue_semaphore, should_stop, active_jobs,
                   max_pending_jobs, caller, queuedAtStop, next_id, ninits>>

\* worker_thread: if the queue is empty unlock and continue; else
\* job = top(), pop(), pending_jobs.fetch_sub(1), unlock
WorkerDequeue(w) ==
    /\ workers[w] = "dequeue"
    /\ queue_mutex' = Free
    /\ IF job_queue = {}
       THEN /\ workers' = WorkerAt(w, "loop")
            /\ UNCHANGED <<job_queue, pending_jobs, wjob>>
       ELSE \E job \in QueueTops(job_queue) :
            /\ job_queue' = job_queue \ {job}
            /\ pending_jobs' = pending_jobs - 1
            /\ wjob' = [wjob EXCEPT ![w] = job]
            /\ workers' = WorkerAt(w, "begin")
    /\ UNCHANGED <<num_threads, queue_semaphore, should_stop, active_jobs,
                   max_pending_jobs, caller, queuedAtStop, next_id, ninits>>

\* worker_thread: active_jobs.fetch_add(1); job.task()
WorkerRun(w) ==
    /\ workers[w] = "begin"
    /\ active_jobs' = active_jobs + 1
    /\ executed' = [executed EXCEPT ![wjob[w].id] = @ + 1]
    /\ workers' = WorkerAt(w, "end")
    /\ UNCHANGED <<num_threads, job_queue, queue_mutex, queue_semaphore,
                   should_stop, pending_jobs, max_pending_jobs,
                   caller, wjob, queuedAtStop, next_id, ninits>>

\* worker_thread: active_jobs.fetch_sub(1), back to the loop test
WorkerEnd(w) ==
    /\ workers[w] = "end"
    /\ active_jobs' = active_jobs - 1
    /\ wjob' = [wjob EXCEPT ![w] = NoJob]
    /\ workers' = WorkerAt(w, "loop")
    /\ UNCHANGED <<num_threads, job_queue, queue_mutex, queue_semaphore,
                   should_stop, pending_jobs, max_pending_jobs,
                   caller, queuedAtStop, next_id, ninits>>

NextPool ==
    \/ \E m \in 1..MaxPending : SetMaxPendingJobs(m) /\ UNCHANGED <<observerVars, submitters, executed, storageVars, mesherVars, worldVars, terrainVars>>
    \/ CallInitialize /\ UNCHANGED <<observerVars, submitters, executed, storageVars, mesherVars, worldVars, terrainVars>>
    \/ \E n \in 0..MaxThreads : InitializeStart(n) /\ UNCHANGED <<observerVars, submitters, executed, storageVars, mesherVars, worldVars, terrainVars>>
    \/ CallShutdown /\ UNCHANGED <<observerVars, submitters, executed, storageVars, mesherVars, worldVars, terrainVars>>
    \/ ShutdownPost /\ UNCHANGED <<observerVars, submitters, executed, storageVars, mesherVars, worldVars, terrainVars>>
    \/ ShutdownJoin /\ UNCHANGED <<observerVars, submitters, executed, storageVars, mesherVars, worldVars, terrainVars>>
    \/ ShutdownLock /\ UNCHANGED <<observerVars, submitters, executed, storageVars, mesherVars, worldVars, terrainVars>>
    \/ ShutdownClear /\ UNCHANGED <<observerVars, submitters, executed, storageVars, mesherVars, worldVars, terrainVars>>
    \/ \E p \in Priorities : CallSubmit(p) /\ UNCHANGED <<observerVars, submitters, executed, storageVars, mesherVars, worldVars, terrainVars>>
    \/ SubmitCheckPending /\ UNCHANGED <<observerVars, submitters, executed, storageVars, mesherVars, worldVars, terrainVars>>
    \/ SubmitLock /\ UNCHANGED <<observerVars, submitters, executed, storageVars, mesherVars, worldVars, terrainVars>>
    \/ SubmitEnqueue /\ UNCHANGED <<observerVars, submitters, executed, storageVars, mesherVars, worldVars, terrainVars>>
    \/ SubmitPost /\ UNCHANGED <<observerVars, submitters, executed, storageVars, mesherVars, worldVars, terrainVars>>
    \/ \E w \in WorkerIds :
        \/ WorkerLoop(w) /\ UNCHANGED <<observerVars, submitters, executed, storageVars, mesherVars, worldVars, terrainVars>>
        \/ WorkerWait(w) /\ UNCHANGED <<observerVars, submitters, executed, storageVars, mesherVars, worldVars, terrainVars>>
        \/ WorkerCheck(w) /\ UNCHANGED <<observerVars, submitters, executed, storageVars, mesherVars, worldVars, terrainVars>>
        \/ WorkerLock(w) /\ UNCHANGED <<observerVars, submitters, executed, storageVars, mesherVars, worldVars, terrainVars>>
        \/ WorkerDequeue(w) /\ UNCHANGED <<observerVars, submitters, executed, storageVars, mesherVars, worldVars, terrainVars>>
        \/ WorkerRun(w) /\ UNCHANGED <<observerVars, submitters, storageVars, mesherVars, worldVars, terrainVars>>
        \/ WorkerEnd(w) /\ UNCHANGED <<observerVars, submitters, executed, storageVars, mesherVars, worldVars, terrainVars>>

---------------------------------------------------------------------------
\* A running pool: submit_job called by several threads at once.
RunWorkerIds == 1..MaxRunWorkers
\* Submitter s as a mutex holder
SubmitterThread(s) == MaxThreads + MaxRunWorkers + 1 + s
SubmitterAt(s, pc) == [submitters EXCEPT ![s].pc = pc]
SubmitterReturns(s) == [submitters EXCEPT ![s].pc = "idle", ![s].job = NoJob]

\* The pool after ThreadPool::initialize(threads): the constructor's values
\* and the started workers
InitPoolRun ==
    /\ num_threads \in RunWorkerIds
    /\ workers = [w \in RunWorkerIds |-> IF w <= num_threads THEN "loop" ELSE "none"]
    /\ job_queue = {}
    /\ queue_mutex = Free
    /\ queue_semaphore = 0
    /\ should_stop = FALSE
    /\ active_jobs = 0
    /\ pending_jobs = 0
    /\ max_pending_jobs \in 1..MaxPending
    /\ caller = Idle("initialize")
    /\ wjob = [w \in RunWorkerIds |-> NoJob]
    /\ queuedAtStop = {}
    /\ next_id = 1
    /\ ninits = 1
    /\ submitters = NoSubmitters
    /\ executed = NoneExecuted

\* Thread s calls submit_job: if (should_stop.load()) return false
SubmitterCall(s, priority) ==
    /\ submitters[s].pc = "idle"
    /\ submitters[s].calls < MaxSubmits
    /\ next_id' = next_id + 1
    /\ submitters' = [submitters EXCEPT
                        ![s] = [pc |-> IF should_stop THEN "idle" ELSE "s_pending",
                                job |-> IF should_stop THEN NoJob
                                        ELSE [id |-> next_id, priority |-> priority],
                                calls |-> @.calls + 1]]
    /\ UNCHANGED <<num_threads, workers, job_queue, queue_mutex, queue_semaphore,
                   should_stop, active_jobs, pending_jobs, max_pending_jobs,
                   caller, wjob, queuedAtStop, ninits, executed>>

\* submit_job in thread s: if (pending_jobs.load() >= max_pending_jobs)
\* return false
SubmitterCheckPending(s) ==
    /\ submitters[s].pc = "s_pending"
    /\ submitters' = IF QueueFull THEN SubmitterReturns(s) ELSE SubmitterAt(s, "s_lock")
    /\ UNCHANGED <<num_threads, workers, job_queue, queue_mutex, queue_semaphore,
                   should_stop, active_jobs, pending_jobs, max_pending_jobs,
                   caller, wjob, queuedAtStop, next_id, ninits, executed>>

\* submit_job in thread s: queue_mutex->lock()
SubmitterLock(s) ==
    /\ submitters[s].pc = "s_lock"
    /\ queue_mutex = Free
    /\ queue_mutex' = SubmitterThread(s)
    /\ submitters' = SubmitterAt(s, "s_enqueue")
    /\ UNCHANGED <<num_threads, workers, job_queue, queue_semaphore, should_stop,
                   active_jobs, pending_jobs, max_pending_jobs,
                   caller, wjob, queuedAtStop, next_id, ninits, executed>>

\* submit_job in thread s: job_queue.emplace, pending_jobs.fetch_add(1),
\* unlock
SubmitterEnqueue(s) ==
    /\ submitters[s].pc = "s_enqueue"
    /\ job_queue' = job_queue \cup {submitters[s].job}
    /\ pending_jobs' = pending_jobs + 1
    /\ queue_mutex' = Free
    /\ submitters' = SubmitterAt(s, "s_post")
    /\ UNCHANGED <<num_threads, workers, queue_semaphore, should_stop,
                   active_jobs, max_pending_jobs,
                   caller, wjob, queuedAtStop, next_id, ninits, executed>>

\* submit_job in thread s: queue_semaphore->post(); return true
SubmitterPost(s) ==
    /\ submitters[s].pc = "s_post"
    /\ queue_semaphore' = queue_semaphore + 1
    /\ submitters' = SubmitterReturns(s)
    /\ UNCHANGED <<num_threads, workers, job_queue, queue_mutex, should_stop,
                   active_jobs, pending_jobs, max_pending_jobs,
                   caller, wjob, queuedAtStop, next_id, ninits, executed>>

\* One step of the worker thread w
PoolWorkerStep(w) ==
    \/ /\ \/ WorkerLoop(w)
          \/ WorkerWait(w)
          \/ WorkerCheck(w)
          \/ WorkerLock(w)
          \/ WorkerDequeue(w)
          \/ WorkerEnd(w)
       /\ UNCHANGED executed
    \/ WorkerRun(w)

NextPoolRun ==
    \/ \E s \in SubmitterIds, p \in Priorities :
          SubmitterCall(s, p) /\ UNCHANGED <<observerVars, storageVars, mesherVars, worldVars, terrainVars>>
    \/ \E s \in SubmitterIds :
          SubmitterCheckPending(s) /\ UNCHANGED <<observerVars, storageVars, mesherVars, worldVars, terrainVars>>
    \/ \E s \in SubmitterIds :
          SubmitterLock(s) /\ UNCHANGED <<observerVars, storageVars, mesherVars, worldVars, terrainVars>>
    \/ \E s \in SubmitterIds :
          SubmitterEnqueue(s) /\ UNCHANGED <<observerVars, storageVars, mesherVars, worldVars, terrainVars>>
    \/ \E s \in SubmitterIds :
          SubmitterPost(s) /\ UNCHANGED <<observerVars, storageVars, mesherVars, worldVars, terrainVars>>
    \/ \E w \in RunWorkerIds :
        \/ WorkerLoop(w) /\ UNCHANGED <<observerVars, submitters, executed, storageVars, mesherVars, worldVars, terrainVars>>
        \/ WorkerWait(w) /\ UNCHANGED <<observerVars, submitters, executed, storageVars, mesherVars, worldVars, terrainVars>>
        \/ WorkerCheck(w) /\ UNCHANGED <<observerVars, submitters, executed, storageVars, mesherVars, worldVars, terrainVars>>
        \/ WorkerLock(w) /\ UNCHANGED <<observerVars, submitters, executed, storageVars, mesherVars, worldVars, terrainVars>>
        \/ WorkerDequeue(w) /\ UNCHANGED <<observerVars, submitters, executed, storageVars, mesherVars, worldVars, terrainVars>>
        \/ WorkerRun(w) /\ UNCHANGED <<observerVars, submitters, storageVars, mesherVars, worldVars, terrainVars>>
        \/ WorkerEnd(w) /\ UNCHANGED <<observerVars, submitters, executed, storageVars, mesherVars, worldVars, terrainVars>>

(***************************************************************************)
(* ChunkMeshBuilder                                                        *)
(***************************************************************************)
\* enum Face, chunk_mesh_builder.h
FACE_LEFT == 0
FACE_RIGHT == 1
FACE_DOWN == 2
FACE_UP == 3
FACE_BACK == 4
FACE_FRONT == 5
Faces == FACE_LEFT..FACE_FRONT

\* The block types registered as transparent by
\* VoxelTypeRegistry::initialize_default_blocks: AIR, WATER, LEAVES, TORCH
\* and GLASS. An unregistered type has the default properties (opaque).
TransparentTypes == {0, 5, 8, 14, 15}
\* VoxelTypeRegistry::is_transparent
IsTransparent(type_id) == type_id \in TransparentTypes

\* Ref<ArrayMesh>(): the null reference build_mesh returns
NullMesh == [is_null |-> TRUE, quads |-> << >>]

\* The cells of a chunk of height size_y
ChunkCells(size_y) ==
    (0..(CHUNK_SIZE_XZ - 1)) \X (0..(size_y - 1)) \X (0..(CHUNK_SIZE_XZ - 1))

\* A chunk as build_mesh sees it: its storage's height, representation
\* and what get_voxel returns for each in-range cell.
ChunkOf(size_y, uniform, value, vox) ==
    [size_y |-> size_y, is_uniform |-> uniform, uniform_value |-> value, vox |-> vox]

\* The chunk whose storage is the storage of this state
ThisChunk ==
    ChunkOf(chunk_size_y, is_uniform, uniform_value,
            [c \in ChunkCells(chunk_size_y) |-> GetVoxel(c[1], c[2], c[3])])

\* greedy_mesh_face: the sweep axes of a face direction
FaceAxes(face, size_y) ==
    IF face \in {FACE_LEFT, FACE_RIGHT}
    THEN [u_axis |-> 2, v_axis |-> 1, w_axis |-> 0,
          u_size |-> CHUNK_SIZE_XZ, v_size |-> size_y,
          w_dir |-> IF face = FACE_RIGHT THEN 1 ELSE -1]
    ELSE IF face \in {FACE_DOWN, FACE_UP}
    THEN [u_axis |-> 0, v_axis |-> 2, w_axis |-> 1,
          u_size |-> CHUNK_SIZE_XZ, v_size |-> CHUNK_SIZE_XZ,
          w_dir |-> IF face = FACE_UP THEN 1 ELSE -1]
    ELSE [u_axis |-> 0, v_axis |-> 1, w_axis |-> 2,
          u_size |-> CHUNK_SIZE_XZ, v_size |-> size_y,
          w_dir |-> IF face = FACE_FRONT THEN 1 ELSE -1]

\* greedy_mesh_face: w_max
WMax(w_axis, size_y) ==
    IF w_axis = 0 \/ w_axis = 2 THEN CHUNK_SIZE_XZ ELSE size_y

\* greedy_mesh_face: mask.resize(current_mask_size) when the mask is too
\* small; the new elements are value-initialised
ResizeMask(m, n) ==
    IF n > Len(m) THEN m \o [i \in 1..(n - Len(m)) |-> 0] ELSE m

\* greedy_mesh_face: std::fill(mask.begin(), mask.begin() + n, AIR)
FillMask(m, n) == [i \in 1..n |-> AIR] \o SubSeq(m, n + 1, Len(m))

\* greedy_mesh_face: convert u,v,w to x,y,z
ToXYZ(w_axis, u, v, w) ==
    IF w_axis = 0 THEN <<w, v, u>>
    ELSE IF w_axis = 1 THEN <<u, w, v>>
    ELSE <<u, v, w>>

\* greedy_mesh_face: the neighbour position in the face direction
NeighborOf(c, w_axis, w_dir) ==
    <<c[1] + (IF w_axis = 0 THEN w_dir ELSE 0),
      c[2] + (IF w_axis = 1 THEN w_dir ELSE 0),
      c[3] + (IF w_axis = 2 THEN w_dir ELSE 0)>>

\* Mutant: the neighbour's transparency is not looked at; any neighbour
\* other than AIR hides the face.
ShouldRenderFaceOpaqueOnly(ch, c, n) ==
    /\ ch.vox[c] # AIR
    /\ ~(/\ n[1] >= 0 /\ n[1] < CHUNK_SIZE_XZ
         /\ n[2] >= 0 /\ n[2] < ch.size_y
         /\ n[3] >= 0 /\ n[3] < CHUNK_SIZE_XZ
         /\ ch.vox[n] # AIR)

\* ChunkMeshBuilder::should_render_face
ShouldRenderFace(ch, c, n) ==
    IF ch.vox[c] = AIR THEN FALSE
    ELSE IF /\ n[1] >= 0 /\ n[1] < CHUNK_SIZE_XZ
            /\ n[2] >= 0 /\ n[2] < ch.size_y
            /\ n[3] >= 0 /\ n[3] < CHUNK_SIZE_XZ
            /\ ch.vox[n] # AIR /\ ~IsTransparent(ch.vox[n])
    THEN FALSE
    ELSE TRUE

\* greedy_mesh_face: the loops writing mask[u + v * u_size] for one layer
BuildMask(m, ch, face, w) ==
    LET a == FaceAxes(face, ch.size_y)
    IN  [i \in 1..Len(m) |->
            IF i > a.u_size * a.v_size THEN m[i]
            ELSE LET u == (i - 1) % a.u_size
                     v == (i - 1) \div a.u_size
                     c == ToXYZ(a.w_axis, u, v, w)
                 IN  IF ShouldRenderFace(ch, c, NeighborOf(c, a.w_axis, a.w_dir))
                     THEN ch.vox[c]
                     ELSE m[i]]

\* Mutant: the width loop is left out; every quad is one cell wide.
QuadWidthOne(m, u, v, u_size, width) == 1

\* greedy_mesh_face: the loop finding the width of the quad at (u, v)
RECURSIVE QuadWidth(_, _, _, _, _)
QuadWidth(m, u, v, u_size, width) ==
    IF u + width < u_size /\ m[u + width + v * u_size + 1] = m[u + v * u_size + 1]
    THEN QuadWidth(m, u, v, u_size, width + 1)
    ELSE width

\* Mutant: the height loop is left out; every quad is one row high.
QuadHeightOne(m, u, v, u_size, v_size, width, height) == 1

\* greedy_mesh_face: the loop finding the height of the quad at (u, v)
RECURSIVE QuadHeight(_, _, _, _, _, _, _)
QuadHeight(m, u, v, u_size, v_size, width, height) ==
    IF /\ v + height < v_size
       /\ \A k \in 0..(width - 1) :
             m[u + k + (v + height) * u_size + 1] = m[u + v * u_size + 1]
    THEN QuadHeight(m, u, v, u_size, v_size, width, height + 1)
    ELSE height

\* greedy_mesh_face: clear the mask for the processed area
ClearQuad(m, u, v, u_size, width, height) ==
    [i \in 1..Len(m) |->
        IF \E h \in 0..(height - 1), k \in 0..(width - 1) : i = u + k + (v + h) * u_size + 1
        THEN AIR
        ELSE m[i]]

\* greedy_mesh_face: the quad handed to add_quad; the normal is the face's
\* and the colour is the block type's. (u, v), width and height are the
\* loop variables pos and size are computed from.
MakeQuad(face, w, u, v, width, height, voxel_type) ==
    LET w_axis == FaceAxes(face, 1).w_axis
        offset == IF face \in {FACE_RIGHT, FACE_UP, FACE_FRONT} THEN 1 ELSE 0
    IN  [face |-> face, type |-> voxel_type,
         u |-> u, v |-> v, width |-> width, height |-> height,
         pos |-> IF w_axis = 0 THEN <<w + offset, v, u>>
                 ELSE IF w_axis = 1 THEN <<u, w + offset, v>>
                 ELSE <<u, v, w + offset>>,
         size |-> IF w_axis = 0 THEN <<0, height, width>>
                  ELSE IF w_axis = 1 THEN <<width, 0, height>>
                  ELSE <<width, height, 0>>]

\* greedy_mesh_face: greedy meshing on the mask of one layer, from the
\* scan position (u, v) on; out holds the quads emitted so far.
RECURSIVE GreedyMerge(_, _, _, _, _, _, _, _)
GreedyMerge(m, u_size, v_size, face, w, u, v, out) ==
    IF v >= v_size THEN [mask |-> m, quads |-> out]
    ELSE IF u >= u_size THEN GreedyMerge(m, u_size, v_size, face, w, 0, v + 1, out)
    ELSE IF m[u + v * u_size + 1] = AIR
    THEN GreedyMerge(m, u_size, v_size, face, w, u + 1, v, out)
    ELSE LET width == QuadWidth(m, u, v, u_size, 1)
             height == QuadHeight(m, u, v, u_size, v_size, width, 1)
             quad == MakeQuad(face, w, u, v, width, height, m[u + v * u_size + 1])
         IN  GreedyMerge(ClearQuad(m, u, v, u_size, width, height),
                         u_size, v_size, face, w, u + width, v, Append(out, quad))

\* Mutant: the mask is neither refilled before a layer nor cleared while
\* merging it, so a layer sees what earlier layers left in the scratch.
MeshLayerStaleScratch(m, ch, face, w) ==
    LET a == FaceAxes(face, ch.size_y)
        layer_mask == BuildMask(m, ch, face, w)
    IN  [mask |-> layer_mask,
         quads |-> GreedyMerge(layer_mask, a.u_size, a.v_size, face, w, 0, 0, << >>).quads]

\* greedy_mesh_face: one iteration of the loop over w (fill the mask,
\* build it, merge it)
MeshLayer(m, ch, face, w) ==
    LET a == FaceAxes(face, ch.size_y)
    IN  GreedyMerge(BuildMask(FillMask(m, a.u_size * a.v_size), ch, face, w),
                    a.u_size, a.v_size, face, w, 0, 0, << >>)

\* greedy_mesh_face: the loop over the layers w..w_max-1 of one face. The
\* layer's result r is bound through a one-element set, so that a layer
\* is evaluated before the next one starts.
RECURSIVE SweepLayers(_, _, _, _, _)
SweepLayers(m, ch, face, w, out) ==
    IF w >= WMax(FaceAxes(face, ch.size_y).w_axis, ch.size_y)
    THEN [mask |-> m, quads |-> out]
    ELSE CHOOSE swept \in {SweepLayers(r.mask, ch, face, w + 1, out \o r.quads) :
                              r \in {MeshLayer(m, ch, face, w)}} : TRUE

\* ChunkMeshBuilder::greedy_mesh_face (called by build_face)
GreedyMeshFace(m, ch, face) ==
    LET a == FaceAxes(face, ch.size_y)
    IN  SweepLayers(ResizeMask(m, a.u_size * a.v_size), ch, face, 0, << >>)

\* build_mesh: the loop over the six faces, from face on; layers counts
\* the layers swept so far.
RECURSIVE BuildFaces(_, _, _, _, _)
BuildFaces(m, ch, face, out, layers) ==
    IF face > FACE_FRONT THEN [mask |-> m, quads |-> out, layers |-> layers]
    ELSE CHOOSE faces \in
             {BuildFaces(r.mask, ch, face + 1, out \o r.quads,
                         layers + WMax(FaceAxes(face, ch.size_y).w_axis, ch.size_y)) :
                 r \in {GreedyMeshFace(m, ch, face)}} : TRUE

\* Mutant: the vertex_count() == 0 test is left out.
ArrayMeshOfAlways(q) == [is_null |-> FALSE, quads |-> q]

\* build_mesh: no mesh when no vertex was generated (add_quad adds four
\* vertices per quad), else the ArrayMesh made of the quads
ArrayMeshOf(q) ==
    IF Len(q) * 4 = 0 THEN NullMesh ELSE [is_null |-> FALSE, quads |-> q]

\* ChunkMeshBuilder::build_mesh on a chunk that has its storage: the mesh
\* returned, the scratch mask left behind and the layers swept.
BuildMeshResult(m, ch) ==
    IF ch.is_uniform /\ ch.uniform_value = AIR
    THEN [mesh |-> NullMesh, mask |-> m, layers |-> 0]
    ELSE LET r == BuildFaces(m, ch, FACE_LEFT, << >>, 0)
         IN  [mesh |-> ArrayMeshOf(r.quads), mask |-> r.mask, layers |-> r.layers]

\* No build_mesh call made yet
NoBuild ==
    [called |-> FALSE, voxels |-> << >>, uniform_air |-> FALSE,
     mesh |-> NullMesh, layers |-> 0, after_other |-> FALSE]
\* No layer being merged
NoLayer == [face |-> FACE_LEFT, w |-> 0, size_y |-> 0, input |-> << >>, merged |-> FALSE]

\* ChunkMeshBuilder::ChunkMeshBuilder: the mask pre-allocated at its
\* maximum size (SKY_CHUNK_HEIGHT * CHUNK_SIZE_XZ), all AIR
InitMesher ==
    /\ mask_size = MaxHeight * CHUNK_SIZE_XZ
    /\ mask = [i \in 1..(MaxHeight * CHUNK_SIZE_XZ) |-> AIR]
    /\ built = NoBuild
    /\ built_before = NoBuild
    /\ meshed_other = FALSE
    /\ layer = NoLayer
    /\ quads = << >>

\* mesh_builder->build_mesh(chunk) on the chunk of this state
BuildMesh ==
    /\ Tick
    /\ LET r == BuildMeshResult(mask, ThisChunk)
       IN  /\ mask' = r.mask
           /\ mask_size' = Len(r.mask)
           /\ built' = [called |-> TRUE, voxels |-> ThisChunk.vox,
                        uniform_air |-> is_uniform /\ uniform_value = AIR,
                        mesh |-> r.mesh, layers |-> r.layers,
                        after_other |-> meshed_other]
    /\ built_before' = built
    /\ meshed_other' = FALSE
    /\ vlast' = Call("build_mesh", "", AIR, TRUE)
    /\ UNCHANGED <<voxelVars, layer, quads>>

\* Chunks other than the chunk of this state: of each height, one full
\* of a block type and one with a single block, in its last cell.
OtherChunks ==
    {ChunkOf(h, TRUE, MaxType, [c \in ChunkCells(h) |-> MaxType]) : h \in Heights}
    \cup
    {ChunkOf(h, FALSE, AIR,
             [c \in ChunkCells(h) |->
                 IF c = <<CHUNK_SIZE_XZ - 1, h - 1, CHUNK_SIZE_XZ - 1>> THEN 1 ELSE AIR]) :
        h \in Heights}

\* mesh_builder->build_mesh(other) on another chunk, by the same mesher
BuildMeshOther(ch) ==
    /\ LET r == BuildMeshResult(mask, ch)
       IN  /\ mask' = r.mask
           /\ mask_size' = Len(r.mask)
    /\ meshed_other' = TRUE
    /\ UNCHANGED <<storageVars, built, built_before, layer, quads>>

NextMesh ==
    \/ NextVoxel
    \/ BuildMesh /\ UNCHANGED <<observerVars, poolVars, worldVars, terrainVars>>
    \/ \E ch \in OtherChunks : BuildMeshOther(ch) /\ UNCHANGED <<observerVars, poolVars, worldVars, terrainVars>>

\* The layers greedy_mesh_face can merge: a face, a chunk height, a layer
\* of that face and any mask of that layer's extent.
LayersOf(f, h) ==
    {[face |-> f, w |-> w, size_y |-> h, input |-> m, merged |-> FALSE] :
        w \in 0..(WMax(FaceAxes(f, h).w_axis, h) - 1),
        m \in [1..(FaceAxes(f, h).u_size * FaceAxes(f, h).v_size) -> Types]}

\* greedy_mesh_face after the mask of a layer was built (line 200)
InitMerge ==
    /\ layer \in UNION {LayersOf(f, h) : f \in Faces, h \in Heights}
    /\ mask = [i \in 1..Len(ResizeMask([j \in 1..(MaxHeight * CHUNK_SIZE_XZ) |-> AIR],
                                       Len(layer.input))) |->
                  IF i <= Len(layer.input) THEN layer.input[i] ELSE AIR]
    /\ mask_size = Len(mask)
    /\ built = NoBuild /\ built_before = NoBuild /\ meshed_other = FALSE
    /\ quads = << >>

\* greedy_mesh_face: the greedy meshing of the layer (lines 202-261)
MergeLayer ==
    /\ ~layer.merged
    /\ LET a == FaceAxes(layer.face, layer.size_y)
           r == GreedyMerge(mask, a.u_size, a.v_size, layer.face, layer.w, 0, 0, << >>)
       IN  /\ mask' = r.mask
           /\ quads' = r.quads
    /\ layer' = [layer EXCEPT !.merged = TRUE]
    /\ UNCHANGED <<mask_size, built, built_before, meshed_other>>

NextMerge == MergeLayer /\ UNCHANGED <<observerVars, storageVars, poolVars, worldVars, terrainVars>>

\* The block types of the chunks whose masks are built: none, an opaque
\* one and a transparent one
MaskTypes == {AIR, STONE, WATER}

\* greedy_mesh_face about to build the mask of a layer of a face of a
\* chunk (line 177); the mask is as the constructor or earlier layers
\* left it (all AIR)
InitMask ==
    /\ \E h \in Heights, f \in Faces :
          \E w \in 0..(WMax(FaceAxes(f, h).w_axis, h) - 1), vox \in [ChunkCells(h) -> MaskTypes] :
              layer = [face |-> f, w |-> w, size_y |-> h, input |-> << >>, merged |-> FALSE,
                       chunk |-> ChunkOf(h, FALSE, AIR, vox)]
    /\ mask_size = MaxHeight * CHUNK_SIZE_XZ
    /\ mask = [i \in 1..(MaxHeight * CHUNK_SIZE_XZ) |-> AIR]
    /\ built = NoBuild /\ built_before = NoBuild /\ meshed_other = FALSE
    /\ quads = << >>

\* greedy_mesh_face: the mask is resized if too small, filled with AIR
\* and built for the layer (lines 168-200)
BuildLayerMask ==
    /\ layer.input = << >>
    /\ LET a == FaceAxes(layer.face, layer.size_y)
           n == a.u_size * a.v_size
       IN  /\ mask' = BuildMask(FillMask(ResizeMask(mask, n), n), layer.chunk, layer.face, layer.w)
           /\ mask_size' = Len(mask')
           /\ layer' = [layer EXCEPT !.input = SubSeq(mask', 1, n)]
    /\ UNCHANGED <<built, built_before, meshed_other, quads>>

\* greedy_mesh_face: the greedy meshing of the layer whose mask was built
MergeBuiltLayer == layer.input # << >> /\ MergeLayer

NextMask ==
    \/ BuildLayerMask /\ UNCHANGED <<observerVars, storageVars, poolVars, worldVars, terrainVars>>
    \/ MergeBuiltLayer /\ UNCHANGED <<observerVars, storageVars, poolVars, worldVars, terrainVars>>

(***************************************************************************)
(* VoxelWorld                                                              *)
(***************************************************************************)
\* No player node is resolved: empty player_path, missing node, or a node
\* that is not a Node3D (update_player_position returns early).
NoPlayer == << >>
\* The chunk coordinates the player node is found in
\* (world_to_chunk_pos of its position): the origin and one chunk over.
PlayerChunks == {<<0, 0, 0>>, <<0, 1, 0>>}

Abs(n) == IF n < 0 THEN -n ELSE n

\* Mutant: the vertical distance is not tested.
IsChunkInRangeNoVertical(chunk_pos, center, h_range, v_range) ==
    /\ Abs(chunk_pos[1] - center[1]) <= h_range
    /\ Abs(chunk_pos[3] - center[3]) <= h_range

\* VoxelWorld::is_chunk_in_range
IsChunkInRange(chunk_pos, center, h_range, v_range) ==
    /\ Abs(chunk_pos[1] - center[1]) <= h_range
    /\ Abs(chunk_pos[3] - center[3]) <= h_range
    /\ Abs(chunk_pos[2] - center[2]) <= v_range

\* load_chunks_around_player: the offsets (dx, dy, dz) the four loops
\* reach; at radius r only the offsets on the edge of the square are kept.
LoadOffsets ==
    {d \in (-render_distance..render_distance)
           \X (-vertical_render_distance..vertical_render_distance)
           \X (-render_distance..render_distance) :
        \E r \in 0..render_distance :
            /\ d[1] \in -r..r /\ d[3] \in -r..r
            /\ ~(Abs(d[1]) # r /\ Abs(d[3]) # r)}

\* The radius r at which the loops reach the offset d
RadiusOf(d) ==
    CHOOSE r \in 0..render_distance :
        /\ d[1] \in -r..r /\ d[3] \in -r..r
        /\ ~(Abs(d[1]) # r /\ Abs(d[3]) # r)

\* load_chunks_around_player: the loops reach offset a before offset b
\* (dy outermost, then r, then dx, then dz)
ReachedBefore(a, b) ==
    \/ a[2] < b[2]
    \/ a[2] = b[2] /\ RadiusOf(a) < RadiusOf(b)
    \/ a[2] = b[2] /\ RadiusOf(a) = RadiusOf(b) /\ a[1] < b[1]
    \/ a[2] = b[2] /\ RadiusOf(a) = RadiusOf(b) /\ a[1] = b[1] /\ a[3] < b[3]

OffsetFrom(center, d) == <<center[1] + d[1], center[2] + d[2], center[3] + d[3]>>

\* Mutant: the test that the chunk already exists is left out.
MissingOffsetsUnchecked == LoadOffsets

\* load_chunks_around_player: the offsets whose chunk is not in the table
MissingOffsets ==
    {d \in LoadOffsets : OffsetFrom(last_player_chunk, d) \notin DOMAIN chunks}

\* Mutant: the cap is tested with > instead of >=.
CapReachedOffByOne == chunks_generated_this_frame > max_chunks_per_frame

\* load_chunks_around_player: limit chunks per frame
CapReached == chunks_generated_this_frame >= max_chunks_per_frame

\* The first chunk position the loops reach that is not in the table
NextToLoad ==
    OffsetFrom(last_player_chunk,
               CHOOSE d \in MissingOffsets :
                   \A e \in MissingOffsets \ {d} : ReachedBefore(d, e))

\* TerrainGenerator::generate_chunk on the chunk at pos: whether it leaves
\* a block other than AIR in it. The terrain explored has its surface in
\* the chunks at height 0: the chunks above are all_above_terrain (filled
\* with AIR), the others get blocks.
TerrainSolid(pos) == pos[2] <= 0

\* The chunks set_voxel_at is called on
EditChunks == {<<0, 0, 0>>}

\* A chunk of the table: its lifecycle state, and whether its storage
\* holds a block other than AIR (build_mesh then returns a mesh).
ChunkRec(state, solid) == [state |-> state, solid |-> solid]

\* Mutant: the removals are capped at one per call.
EraseKeysCapped(table, gone) ==
    [c \in DOMAIN table \ (IF gone = {} THEN {} ELSE {CHOOSE g \in gone : TRUE}) |-> table[c]]

\* chunks[pos] = chunk
PutChunk(table, pos, chunk) ==
    [c \in DOMAIN table \cup {pos} |-> IF c = pos THEN chunk ELSE table[c]]
\* erase of a set of keys of a std::unordered_map
EraseKeys(table, gone) == [c \in DOMAIN table \ gone |-> table[c]]

\* A call_deferred("create_chunk_mesh_instance", pos, mesh) message, or a
\* direct call: the mesh is null or not; live tells whether the chunk the
\* mesh was built from is the chunk the table holds at pos.
InstallCall(pos, is_null, live) == [pos |-> pos, is_null |-> is_null, live |-> live]

\* VoxelWorld::remove_chunk_mesh_instance
RemoveChunkMeshInstance(instances, pos) == EraseKeys(instances, {pos})

\* memnew(MeshInstance3D) and add_child for the coordinate pos
AddChild(nodes, pos) ==
    [c \in DOMAIN nodes \cup {pos} |->
        IF c = pos THEN (IF pos \in DOMAIN nodes THEN nodes[pos] + 1 ELSE 1) ELSE nodes[c]]

\* Mutant: the handle found is erased from the table but not freed.
QueueFreeForgotten(nodes, instances, gone) == nodes

\* remove_chunk_mesh_instance / clear_world: queue_free of the handles the
\* table holds for the coordinates gone
QueueFree(nodes, instances, gone) ==
    LET freed == gone \cap DOMAIN instances
    IN  [c \in {d \in DOMAIN nodes : d \notin freed \/ nodes[d] > 1} |->
            IF c \in freed THEN nodes[c] - 1 ELSE nodes[c]]

\* Mutant: the test that the chunk still exists is left out.
CreateChunkMeshInstanceUnchecked(w, call) ==
    IF call.is_null THEN w
    ELSE [chunks |-> [c \in DOMAIN w.chunks |->
                        IF c = call.pos THEN ChunkRec("ACTIVE", w.chunks[c].solid)
                        ELSE w.chunks[c]],
          chunk_mesh_instances |->
              PutChunk(RemoveChunkMeshInstance(w.chunk_mesh_instances, call.pos),
                       call.pos, [live |-> call.live]),
          children |->
              AddChild(QueueFree(w.children, w.chunk_mesh_instances, {call.pos}), call.pos)]

\* VoxelWorld::create_chunk_mesh_instance on the two tables w
CreateChunkMeshInstance(w, call) ==
    IF call.is_null THEN w
    ELSE IF call.pos \notin DOMAIN w.chunks THEN w
    ELSE [chunks |-> [w.chunks EXCEPT ![call.pos].state = "ACTIVE"],
          chunk_mesh_instances |->
              PutChunk(RemoveChunkMeshInstance(w.chunk_mesh_instances, call.pos),
                       call.pos, [live |-> call.live]),
          children |->
              AddChild(QueueFree(w.children, w.chunk_mesh_instances, {call.pos}), call.pos)]

\* The engine delivering the deferred calls in the order they were posted
RECURSIVE DeliverCalls(_, _)
DeliverCalls(w, calls) ==
    IF calls = << >> THEN w
    ELSE DeliverCalls(CreateChunkMeshInstance(w, Head(calls)), Tail(calls))

Tables == [chunks |-> chunks, chunk_mesh_instances |-> chunk_mesh_instances,
           children |-> children]

\* A generation job: the closure's pos and chunk. live tells whether the
\* captured chunk is still the one the table holds at pos; once it is not,
\* solid tells whether the captured chunk's storage holds a block.
WorldJob(id, pos) == [id |-> id, priority |-> 0, pos |-> pos, live |-> TRUE, solid |-> FALSE]

\* The jobs accepted and not finished
JobsInFlight == job_queue \cup {wjob[w] : w \in {x \in WorkerIds : wjob[x] # NoJob}}
\* An id no job in flight has
FreshJobId == CHOOSE i \in 1..(Cardinality(JobsInFlight) + 1) :
                  \A j \in JobsInFlight : j.id # i

\* The chunks at the positions gone were erased from the table: the jobs
\* and calls made for them no longer refer to a chunk of the table.
Orphaned(j, gone) ==
    IF j # NoJob /\ j.live /\ j.pos \in gone
    THEN [j EXCEPT !.live = FALSE, !.solid = chunks[j.pos].solid]
    ELSE j
OrphanedCall(call, gone) ==
    IF call.live /\ call.pos \in gone THEN [call EXCEPT !.live = FALSE] ELSE call

\* An empty std::unordered_map
EmptyTable == [c \in {} |-> c]

\* The world node before _ready, in behaviours of the other components.
NoWorld ==
    /\ chunks = EmptyTable /\ chunk_mesh_instances = EmptyTable
    /\ children = EmptyTable
    /\ last_player_chunk = <<0, 0, 0>>
    /\ render_distance = 0 /\ vertical_render_distance = 0
    /\ use_threading = FALSE
    /\ chunks_generated_this_frame = 0
    /\ player = NoPlayer /\ main_pc = "idle" /\ deferred = << >>
    /\ installed = << >> /\ loaded_this_frame = {}

\* The configurations explored: with threading the interleavings of the
\* workers are explored on a single column of chunks, without threading
\* on the widest square of chunks.
Configs ==
    {[use_threading |-> TRUE, render_distance |-> 0,
      vertical_render_distance |-> MaxVerticalDistance],
     [use_threading |-> FALSE, render_distance |-> MaxRenderDistance,
      vertical_render_distance |-> 0]}

\* Without threading, the widest box of chunks
BoxConfig ==
    [use_threading |-> FALSE, render_distance |-> MaxRenderDistance,
     vertical_render_distance |-> MaxVerticalDistance]

\* VoxelWorld::VoxelWorld and VoxelWorld::_ready (initialize_systems),
\* with one of the configurations cfgs
InitWorldWith(cfgs) ==
    /\ chunks = EmptyTable /\ chunk_mesh_instances = EmptyTable
    /\ children = EmptyTable
    /\ last_player_chunk = <<0, 0, 0>>
    /\ \E cfg \in cfgs :
          /\ use_threading = cfg.use_threading
          /\ render_distance = cfg.render_distance
          /\ vertical_render_distance = cfg.vertical_render_distance
    /\ chunks_generated_this_frame = 0
    /\ player \in {NoPlayer, <<0, 0, 0>>}
    /\ main_pc = "idle" /\ deferred = << >>
    /\ installed = << >> /\ loaded_this_frame = {}

InitWorld == InitWorldWith(Configs)
InitWorldBox == InitWorldWith(Configs \cup {BoxConfig})

\* initialize_systems: thread_pool->initialize(num_worker_threads) when
\* use_threading, else no pool is created. The workers wait for jobs.
\* max_pending_jobs keeps the constructor's value in the program (1000);
\* the model checks a scaled-down capacity.
InitWorldPool ==
    /\ num_threads = (IF use_threading THEN MaxThreads ELSE 0)
    /\ workers = [w \in WorkerIds |-> IF use_threading THEN "wait" ELSE "none"]
    /\ job_queue = {}
    /\ queue_mutex = Free
    /\ queue_semaphore = 0
    /\ should_stop = FALSE
    /\ active_jobs = 0
    /\ pending_jobs = 0
    /\ max_pending_jobs = MaxPending
    /\ caller = Idle("none")
    /\ wjob = [w \in WorkerIds |-> NoJob]
    /\ queuedAtStop = {}
    /\ next_id = 1
    /\ ninits = (IF use_threading THEN 1 ELSE 0)
    /\ submitters = NoSubmitters
    /\ executed = NoneExecuted

\* The pool variables the world's behaviours leave alone
poolRest == <<num_threads, queue_mutex, queue_semaphore, should_stop,
              max_pending_jobs, caller, queuedAtStop, next_id, ninits,
              submitters, executed>>
configVars == <<render_distance, vertical_render_distance, use_threading>>

\* The player node moves (or appears, or disappears) between two frames.
MovePlayer(p) ==
    /\ main_pc = "idle"
    /\ p # player
    /\ player' = p
    /\ UNCHANGED <<chunks, chunk_mesh_instances, children, last_player_chunk, configVars,
                   chunks_generated_this_frame, main_pc, deferred,
                   installed, loaded_this_frame>>
    /\ UNCHANGED <<poolRest, job_queue, pending_jobs, active_jobs, workers, wjob>>

\* VoxelWorld::update_player_position
UpdatePlayerPosition ==
    last_player_chunk' = IF player = NoPlayer THEN last_player_chunk ELSE player

\* VoxelWorld::_process up to the call of load_chunks_around_player
Process ==
    /\ main_pc = "idle"
    /\ chunks_generated_this_frame' = 0
    /\ UpdatePlayerPosition
    /\ main_pc' = "load"
    /\ installed' = << >>
    /\ loaded_this_frame' = {}
    /\ UNCHANGED <<chunks, chunk_mesh_instances, children, configVars, player, deferred>>
    /\ UNCHANGED <<poolRest, job_queue, pending_jobs, active_jobs, workers, wjob>>

\* VoxelWorld::generate_chunk_async. With threading the job is handed to
\* ThreadPool::submit_job, whose result is not looked at; without, the
\* chunk is generated (generate_chunk leaves it ACTIVE), meshed and
\* installed at once.
GenerateChunkAsync(pos) ==
    IF use_threading
    THEN /\ chunks' = PutChunk(chunks, pos, ChunkRec("GENERATING", FALSE))
         /\ IF should_stop \/ QueueFull
            THEN UNCHANGED <<job_queue, pending_jobs>>
            ELSE /\ job_queue' = job_queue \cup {WorldJob(FreshJobId, pos)}
                 /\ pending_jobs' = pending_jobs + 1
         /\ UNCHANGED <<chunk_mesh_instances, children, installed>>
    ELSE LET solid == TerrainSolid(pos)
             call == InstallCall(pos, ~solid, TRUE)
             w == CreateChunkMeshInstance(
                     [chunks |-> PutChunk(chunks, pos, ChunkRec("ACTIVE", solid)),
                      chunk_mesh_instances |-> chunk_mesh_instances,
                      children |-> children], call)
         IN  /\ chunks' = w.chunks
             /\ chunk_mesh_instances' = w.chunk_mesh_instances
             /\ children' = w.children
             /\ installed' = Append(installed, call)
             /\ UNCHANGED <<job_queue, pending_jobs>>

\* load_chunks_around_player: the loops up to and including the next
\* generate_chunk_async call
LoadChunksAroundPlayer ==
    /\ main_pc = "load"
    /\ MissingOffsets # {}
    /\ ~CapReached
    /\ GenerateChunkAsync(NextToLoad)
    /\ chunks_generated_this_frame' = chunks_generated_this_frame + 1
    /\ loaded_this_frame' = loaded_this_frame \cup {NextToLoad}
    /\ UNCHANGED <<last_player_chunk, configVars, player, main_pc, deferred>>
    /\ UNCHANGED <<poolRest, active_jobs, workers, wjob>>

\* load_chunks_around_player returns (loops finished, or the cap is
\* reached at a missing chunk); VoxelWorld::unload_distant_chunks
UnloadDistantChunks ==
    /\ main_pc = "load"
    /\ MissingOffsets = {} \/ CapReached
    /\ LET to_unload == {pos \in DOMAIN chunks :
                            ~IsChunkInRange(pos, last_player_chunk,
                                            render_distance, vertical_render_distance)}
       IN  /\ chunks' = EraseKeys(chunks, to_unload)
           /\ chunk_mesh_instances' = EraseKeys(chunk_mesh_instances, to_unload)
           /\ children' = QueueFree(children, chunk_mesh_instances, to_unload)
           /\ job_queue' = {Orphaned(j, to_unload) : j \in job_queue}
           /\ wjob' = [w \in WorkerIds |-> Orphaned(wjob[w], to_unload)]
           /\ deferred' = [i \in 1..Len(deferred) |-> OrphanedCall(deferred[i], to_unload)]
    /\ main_pc' = "flush"
    /\ loaded_this_frame' = {}
    /\ UNCHANGED <<last_player_chunk, configVars, chunks_generated_this_frame,
                   player, installed>>
    /\ UNCHANGED <<poolRest, pending_jobs, active_jobs, workers>>

\* The engine flushes its message queue at the end of the frame: every
\* deferred create_chunk_mesh_instance call runs on the main thread.
FlushDeferred ==
    /\ main_pc = "flush"
    /\ LET w == DeliverCalls(Tables, deferred)
       IN  /\ chunks' = w.chunks
           /\ chunk_mesh_instances' = w.chunk_mesh_instances
           /\ children' = w.children
    /\ installed' = installed \o deferred
    /\ deferred' = << >>
    /\ main_pc' = "idle"
    /\ UNCHANGED <<last_player_chunk, configVars, chunks_generated_this_frame,
                   player, loaded_this_frame>>
    /\ UNCHANGED <<poolRest, job_queue, pending_jobs, active_jobs, workers, wjob>>

\* VoxelWorld::set_voxel_at on a position inside the chunk at pos, between
\* two frames: the edit leaves the chunk with a block (solid) or without
\* one; the mesh is rebuilt and installed.
SetVoxelAt(pos, solid) ==
    /\ main_pc = "idle"
    /\ pos \in DOMAIN chunks
    /\ LET call == InstallCall(pos, ~solid, TRUE)
           w == CreateChunkMeshInstance(
                   [chunks |-> [chunks EXCEPT ![pos].solid = solid],
                    chunk_mesh_instances |-> chunk_mesh_instances,
                    children |-> children], call)
       IN  /\ chunks' = w.chunks
           /\ chunk_mesh_instances' = w.chunk_mesh_instances
           /\ children' = w.children
           /\ installed' = <<call>>
    /\ UNCHANGED <<last_player_chunk, configVars, chunks_generated_this_frame,
                   player, main_pc, deferred, loaded_this_frame>>
    /\ UNCHANGED <<poolRest, job_queue, pending_jobs, active_jobs, workers, wjob>>

\* worker_thread: a waiting worker takes a job from the queue and starts
\* its task (pending_jobs.fetch_sub, active_jobs.fetch_add)
WorkerTakeJob(w) ==
    /\ workers[w] = "wait"
    /\ \E job \in QueueTops(job_queue) :
          /\ job_queue' = job_queue \ {job}
          /\ wjob' = [wjob EXCEPT ![w] = job]
    /\ pending_jobs' = pending_jobs - 1
    /\ active_jobs' = active_jobs + 1
    /\ workers' = WorkerAt(w, "generate")
    /\ UNCHANGED <<worldVars, poolRest>>

\* The job's terrain_generator->generate_chunk(chunk.ptr()): it fills the
\* captured chunk's storage and sets its state to ACTIVE.
WorkerGenerate(w) ==
    /\ workers[w] = "generate"
    /\ IF wjob[w].live
       THEN /\ chunks' = [chunks EXCEPT ![wjob[w].pos] =
                              ChunkRec("ACTIVE", TerrainSolid(wjob[w].pos))]
            /\ UNCHANGED wjob
       ELSE /\ wjob' = [wjob EXCEPT ![w].solid = TerrainSolid(wjob[w].pos)]
            /\ UNCHANGED chunks
    /\ workers' = WorkerAt(w, "mesh")
    /\ UNCHANGED <<chunk_mesh_instances, children, last_player_chunk, configVars,
                   chunks_generated_this_frame, player, main_pc, deferred,
                   installed, loaded_this_frame>>
    /\ UNCHANGED <<poolRest, job_queue, pending_jobs, active_jobs>>

\* The job's mesh_builder->build_mesh(chunk.ptr()) and call_deferred; the
\* task returns (active_jobs.fetch_sub) and the worker waits again.
WorkerMesh(w) ==
    /\ workers[w] = "mesh"
    /\ LET solid == IF wjob[w].live THEN chunks[wjob[w].pos].solid ELSE wjob[w].solid
       IN  deferred' = Append(deferred, InstallCall(wjob[w].pos, ~solid, wjob[w].live))
    /\ wjob' = [wjob EXCEPT ![w] = NoJob]
    /\ active_jobs' = active_jobs - 1
    /\ workers' = WorkerAt(w, "wait")
    /\ UNCHANGED <<chunks, chunk_mesh_instances, children, last_player_chunk, configVars,
                   chunks_generated_this_frame, player, main_pc,
                   installed, loaded_this_frame>>
    /\ UNCHANGED <<poolRest, job_queue, pending_jobs>>

\* VoxelWorld::clear_world, called between two frames: every handle of the
\* table is freed and both tables are cleared; the jobs in flight and the
\* deferred calls are left as they are.
ClearWorld ==
    /\ main_pc = "idle"
    /\ chunks' = EmptyTable
    /\ chunk_mesh_instances' = EmptyTable
    /\ children' = QueueFree(children, chunk_mesh_instances, DOMAIN chunk_mesh_instances)
    /\ job_queue' = {Orphaned(j, DOMAIN chunks) : j \in job_queue}
    /\ wjob' = [w \in WorkerIds |-> Orphaned(wjob[w], DOMAIN chunks)]
    /\ deferred' = [i \in 1..Len(deferred) |-> OrphanedCall(deferred[i], DOMAIN chunks)]
    /\ UNCHANGED <<last_player_chunk, configVars, chunks_generated_this_frame,
                   player, main_pc, installed, loaded_this_frame>>
    /\ UNCHANGED <<poolRest, pending_jobs, active_jobs, workers>>

\* One step of the main thread's frame
MainStep ==
    \/ Process
    \/ LoadChunksAroundPlayer
    \/ UnloadDistantChunks
    \/ FlushDeferred
\* One step of worker w
WorkerStep(w) ==
    \/ WorkerTakeJob(w)
    \/ WorkerGenerate(w)
    \/ WorkerMesh(w)

NextWorld ==
    \/ \E p \in PlayerChunks \cup {NoPlayer} :
          MovePlayer(p) /\ UNCHANGED <<observerVars, storageVars, mesherVars, terrainVars>>
    \/ Process /\ UNCHANGED <<observerVars, storageVars, mesherVars, terrainVars>>
    \/ LoadChunksAroundPlayer /\ UNCHANGED <<observerVars, storageVars, mesherVars, terrainVars>>
    \/ UnloadDistantChunks /\ UNCHANGED <<observerVars, storageVars, mesherVars, terrainVars>>
    \/ FlushDeferred /\ UNCHANGED <<observerVars, storageVars, mesherVars, terrainVars>>
    \/ \E pos \in EditChunks, solid \in BOOLEAN :
          SetVoxelAt(pos, solid) /\ UNCHANGED <<observerVars, storageVars, mesherVars, terrainVars>>
    \/ \E w \in WorkerIds :
        \/ WorkerTakeJob(w) /\ UNCHANGED <<observerVars, storageVars, mesherVars, terrainVars>>
        \/ WorkerGenerate(w) /\ UNCHANGED <<observerVars, storageVars, mesherVars, terrainVars>>
        \/ WorkerMesh(w) /\ UNCHANGED <<observerVars, storageVars, mesherVars, terrainVars>>

(***************************************************************************)
(* The observer's position and its chunk                                   *)
(***************************************************************************)
\* World positions (Vector3, float) are kept in units of 1/PosScale
PosScale == 2

\* int32_t a / b of C++: the quotient is rounded towards zero
TruncDiv(a, b) == IF a >= 0 THEN a \div b ELSE -((-a) \div b)

\* get_chunk_height_for_y
GetChunkHeightForY(world_y) ==
    IF world_y < DEEP_VOID_MAX_Y THEN DEEP_VOID_CHUNK_HEIGHT
    ELSE IF world_y < DENSE_TERRAIN_MAX_Y THEN DENSE_TERRAIN_CHUNK_HEIGHT
    ELSE SKY_CHUNK_HEIGHT

\* world_y_to_chunk_y
WorldYToChunkY(world_y) == TruncDiv(world_y, GetChunkHeightForY(world_y))

\* VoxelWorld::world_to_chunk_pos of the position p: floor(p.x / CHUNK_SIZE_XZ),
\* world_y_to_chunk_y(static_cast<int32_t>(p.y)), floor(p.z / CHUNK_SIZE_XZ)
WorldToChunkPos(p) ==
    << p[1] \div (PosScale * CHUNK_SIZE_XZ),
       WorldYToChunkY(TruncDiv(p[2], PosScale)),
       p[3] \div (PosScale * CHUNK_SIZE_XZ) >>

\* generate_chunk_async: the height the chunk at pos is created with
ChunkHeightAt(pos) == GetChunkHeightForY(pos[2])

\* Chunk::initialize: world_position of the chunk at pos of the height
\* chunk_height
ChunkWorldPosition(pos, chunk_height) ==
    <<pos[1] * CHUNK_SIZE_XZ, pos[2] * chunk_height, pos[3] * CHUNK_SIZE_XZ>>

\* The observer positions tried: two chunks on either side of the origin
\* on x and z; on y the heights around the origin and around the two zone
\* boundaries, each with the fractions 0 and 1/2
ObserverXZ == (-(2 * PosScale * CHUNK_SIZE_XZ))..(2 * PosScale * CHUNK_SIZE_XZ - 1)
ObserverY ==
    {y \in (PosScale * (DEEP_VOID_MAX_Y - DEEP_VOID_CHUNK_HEIGHT))
            ..(PosScale * (DENSE_TERRAIN_MAX_Y + SKY_CHUNK_HEIGHT)) :
        \/ y \in (PosScale * (DEEP_VOID_MAX_Y - DEEP_VOID_CHUNK_HEIGHT))
                    ..(PosScale * (DEEP_VOID_MAX_Y + DENSE_TERRAIN_CHUNK_HEIGHT))
        \/ y \in (-(PosScale * DENSE_TERRAIN_CHUNK_HEIGHT))..(PosScale * DENSE_TERRAIN_CHUNK_HEIGHT)
        \/ y >= PosScale * (DENSE_TERRAIN_MAX_Y - DENSE_TERRAIN_CHUNK_HEIGHT)}

NoChunkPos == << >>

\* No observer, in behaviours of the other components.
NoObserver == observer = <<0, 0, 0>> /\ observer_chunk = NoChunkPos

\* An observer somewhere in the world
InitObserver ==
    /\ observer \in ObserverXZ \X ObserverY \X {-1, 0}
    /\ observer_chunk = NoChunkPos

\* update_player_position: world_to_chunk_pos(player->get_global_position())
ConvertPosition ==
    /\ observer_chunk = NoChunkPos
    /\ observer_chunk' = WorldToChunkPos(observer)
    /\ UNCHANGED observer

NextObserver ==
    ConvertPosition /\ UNCHANGED <<storageVars, poolVars, mesherVars, worldVars, terrainVars>>

(***************************************************************************)
(* TerrainGenerator                                                        *)
(***************************************************************************)
\* 2^n
RECURSIVE Pow2(_)
Pow2(n) == IF n = 0 THEN 1 ELSE 2 * Pow2(n - 1)

\* static_cast<uint64_t>(v) of a signed coordinate: the value modulo 2^64
\* (a negative coordinate is sign-extended), here modulo 2^(2*CoordBits)
ToUint64(v) == v % Pow2(2 * CoordBits)

\* a | b on unsigned integers
RECURSIVE BitOr(_, _)
BitOr(a, b) ==
    IF a = 0 THEN b
    ELSE IF b = 0 THEN a
    ELSE (IF a % 2 = 1 \/ b % 2 = 1 THEN 1 ELSE 0) + 2 * BitOr(a \div 2, b \div 2)

\* TerrainGenerator::make_cache_key:
\* (static_cast<uint64_t>(wx) << 32) | static_cast<uint64_t>(wz)
MakeCacheKey(wx, wz) ==
    BitOr((ToUint64(wx) * Pow2(CoordBits)) % Pow2(2 * CoordBits), ToUint64(wz))

\* Heights (float) are kept in units of 1/HeightScale and noise values
\* (float) in units of 1/NoiseScale, which makes
\* base_height + noise_value * max_height_variation exact in integers
HeightScale == 2
NoiseScale == HeightScale * max_height_variation

\* get_height_at: float height = params.base_height +
\* (noise_value * params.max_height_variation), of the noise value n
HeightFrom(n) ==
    HeightScale * base_height + (n * max_height_variation * HeightScale) \div NoiseScale

\* The world coordinates (wx, wz) get_height_at is called with
LookupCoords == {-1, 0} \X {-1, 0}
\* The values noise->get_noise_2d takes at those coordinates
NoiseValues == {-1, 1}
\* The threads calling get_height_at
LookerIds == 1..MaxLookers

\* get_height_at: the height calculated for the coordinate c
HeightOf(c) == HeightFrom(noise[c])

\* A thread outside get_height_at
NotLooking == [pc |-> "idle", x |-> 0, z |-> 0, height |-> 0]

\* What get_height_at returned for c is added to the record of the calls
Returned(c, height) == [returned EXCEPT ![c] = @ \cup {height}]

\* The generator before construction, in behaviours of the other components.
NoCache ==
    /\ noise = [c \in LookupCoords |-> 0]
    /\ height_cache = << >>
    /\ lookers = [t \in LookerIds |-> NotLooking]
    /\ returned = [c \in LookupCoords |-> {}]

\* TerrainGenerator::TerrainGenerator and initialize(seed): the noise of
\* the seed is some function of the coordinate, the cache is empty.
InitCache ==
    /\ noise \in [LookupCoords -> NoiseValues]
    /\ height_cache = << >>
    /\ lookers = [t \in LookerIds |-> NotLooking]
    /\ returned = [c \in LookupCoords |-> {}]

\* get_height_at(c[1], c[2]) up to the first unlock: the cached height is
\* returned, or the thread goes on to calculate the height
HeightFind(t, c) ==
    /\ lookers[t].pc = "idle"
    /\ LET key == MakeCacheKey(c[1], c[2])
       IN  IF key \in DOMAIN height_cache
           THEN /\ returned' = Returned(c, height_cache[key])
                /\ UNCHANGED lookers
           ELSE /\ lookers' = [lookers EXCEPT ![t] =
                                  [pc |-> "calculate", x |-> c[1], z |-> c[2], height |-> 0]]
                /\ UNCHANGED returned
    /\ UNCHANGED <<noise, height_cache>>

\* get_height_at: calculate height
HeightCalculate(t) ==
    /\ lookers[t].pc = "calculate"
    /\ lookers' = [lookers EXCEPT ![t].pc = "store",
                                  ![t].height = HeightOf(<<lookers[t].x, lookers[t].z>>)]
    /\ UNCHANGED <<noise, height_cache, returned>>

\* get_height_at: cache the result (under the mutex) and return it
HeightStore(t) ==
    /\ lookers[t].pc = "store"
    /\ LET key == MakeCacheKey(lookers[t].x, lookers[t].z)
       IN  height_cache' = [k \in DOMAIN height_cache \cup {key} |->
                               IF k = key THEN lookers[t].height ELSE height_cache[k]]
    /\ returned' = Returned(<<lookers[t].x, lookers[t].z>>, lookers[t].height)
    /\ lookers' = [lookers EXCEPT ![t] = NotLooking]
    /\ UNCHANGED noise

\* TerrainGenerator::clear_cache
ClearCache ==
    /\ height_cache # << >>
    /\ height_cache' = << >>
    /\ UNCHANGED <<noise, lookers, returned>>

NextCache ==
    \/ \E t \in LookerIds, c \in LookupCoords :
          HeightFind(t, c) /\ UNCHANGED <<observerVars, storageVars, poolVars, mesherVars, worldVars, gen_in, gen_out, jobs>>
    \/ \E t \in LookerIds :
          HeightCalculate(t) /\ UNCHANGED <<observerVars, storageVars, poolVars, mesherVars, worldVars, gen_in, gen_out, jobs>>
    \/ \E t \in LookerIds :
          HeightStore(t) /\ UNCHANGED <<observerVars, storageVars, poolVars, mesherVars, worldVars, gen_in, gen_out, jobs>>
    \/ ClearCache /\ UNCHANGED <<observerVars, storageVars, poolVars, mesherVars, worldVars, gen_in, gen_out, jobs>>

\* TerrainGenerator::initialize(seed), called by set_world_seed on the main
\* thread: the noise becomes the function of the new seed and the cache is
\* cleared. The threads inside get_height_at are not waited for.
Reseed(new_noise) ==
    /\ new_noise # noise
    /\ noise' = new_noise
    /\ height_cache' = << >>
    /\ UNCHANGED <<lookers, returned>>

\* The noise functions of the seeds set_world_seed is called with: each
\* seed tried gives the four coordinates the same noise value
SeedNoises == {[c \in LookupCoords |-> n] : n \in NoiseValues}

\* The generator after initialize(seed) with one of those seeds
InitReseed == InitCache /\ noise \in SeedNoises

\* The height cache with reseeds among its calls
NextReseed ==
    \/ NextCache
    \/ \E new_noise \in SeedNoises :
          Reseed(new_noise) /\ UNCHANGED <<observerVars, storageVars, poolVars, mesherVars, worldVars, gen_in, gen_out, jobs>>

\* No generate_chunk call and no worker job, in behaviours of the other
\* components.
NoGenerate == gen_in = << >> /\ gen_out = << >>
NoJobsRunning == jobs = << >>
NoTerrain == NoCache /\ NoGenerate /\ NoJobsRunning

\* static_cast<int32_t>(height): the fraction is dropped (towards zero)
TruncToInt(height) ==
    IF height >= 0 THEN height \div HeightScale ELSE -((-height) \div HeightScale)

\* TerrainGenerator::get_surface_block
GetSurfaceBlock(height, noise_value) ==
    IF noise_value * 10 > mountain_threshold_tenths * NoiseScale
    THEN IF height > HeightScale * (base_height + PeakRise) THEN STONE ELSE GRAVEL
    ELSE IF noise_value * 10 < beach_threshold_tenths * NoiseScale
    THEN SAND
    ELSE IF height > HeightScale * water_level THEN GRASS ELSE SAND

\* generate_chunk, "Generate voxels": the type of the cell at world height
\* wy of a column with that height and noise value
VoxelTypeOf(wy, height, noise_value) ==
    IF HeightScale * wy < height
    THEN IF HeightScale * wy < height - HeightScale * DirtDepth THEN STONE ELSE DIRT
    ELSE IF wy = TruncToInt(height)
    THEN GetSurfaceBlock(height, noise_value)
    ELSE IF wy < water_level
    THEN WATER
    ELSE AIR

\* The columns (x, z) of a chunk and the ones the quick check samples
Columns == (0..(CHUNK_SIZE_XZ - 1)) \X (0..(CHUNK_SIZE_XZ - 1))
SampledColumns == {c \in Columns : c[1] % SampleStep = 0 /\ c[2] % SampleStep = 0}

\* generate_chunk, "Quick check": all_above_terrain after the sampling loop
AllAboveTerrain(in) ==
    \A c \in SampledColumns :
        ~(HeightScale * (in.pos_y * in.size_y) <= in.height[c])

\* The cells of the chunk generated
GenCells(in) == {<<x, y, z>> : x \in 0..(CHUNK_SIZE_XZ - 1), y \in 0..(in.size_y - 1),
                               z \in 0..(CHUNK_SIZE_XZ - 1)}

\* TerrainGenerator::generate_chunk on a chunk just constructed (uniform
\* AIR): the voxels it leaves, whether the storage is uniform, the state
GenerateChunkResult(in) ==
    IF AllAboveTerrain(in)
    THEN [voxels |-> [p \in GenCells(in) |-> AIR], is_uniform |-> TRUE,
          state |-> "ACTIVE", early |-> TRUE]
    ELSE LET voxels == [p \in GenCells(in) |->
                           VoxelTypeOf(in.pos_y * in.size_y + p[2],
                                       in.height[<<p[1], p[3]>>],
                                       in.noise_value[<<p[1], p[3]>>])]
         IN  [voxels |-> voxels,
              is_uniform |-> \A p, q \in GenCells(in) : voxels[p] = voxels[q],
              state |-> "ACTIVE", early |-> FALSE]

\* The noise values of the columns of the chunks generated: heights 56,
\* 62.5, 64, 64.5, 79 and 80 with the default parameters
ColumnNoise == {-16, -3, 0, 1, 30, 32}
\* The vertical chunk positions generated: from world height 0 to the
\* highest terrain
GenPositions(size_y) ==
    {p \in 0..(base_height + max_height_variation) :
        p * size_y <= base_height + max_height_variation}

NotGenerated == << >>

\* A chunk about to be handed to generate_chunk: its vertical position and
\* height, and for every column what noise->get_noise_2d and get_height_at
\* return for it
InitGenerate ==
    /\ \E s \in Heights :
          \E p \in GenPositions(s), n \in [Columns -> ColumnNoise] :
              gen_in = [pos_y |-> p, size_y |-> s, noise_value |-> n,
                        height |-> [c \in Columns |-> HeightFrom(n[c])]]
    /\ gen_out = NotGenerated

\* generate_chunk(chunk)
GenerateChunk ==
    /\ gen_out = NotGenerated
    /\ gen_out' = GenerateChunkResult(gen_in)
    /\ UNCHANGED <<gen_in, noise, height_cache, lookers, returned, jobs>>

NextGenerate ==
    GenerateChunk /\ UNCHANGED <<observerVars, storageVars, poolVars, mesherVars, worldVars>>

(***************************************************************************)
(* The jobs of generate_chunk_async, run by the pool's workers             *)
(***************************************************************************)
\* The worker threads running jobs
JobWorkerIds == 1..MaxJobWorkers

\* The vertical positions of the chunks the jobs are for (the chunks are
\* one cell high): around the terrain's surface
JobPositions == {base_height - 2, base_height - 1, base_height}

\* What generate_chunk is handed for the chunk at pos_y: the noise and
\* the height of its columns (heights 64.5 and 62.5)
JobInput(pos_y) ==
    LET n == [c \in Columns |-> IF c = <<0, 0>> THEN 1 ELSE -3]
    IN  [pos_y |-> pos_y, size_y |-> 1, noise_value |-> n,
         height |-> [c \in Columns |-> HeightFrom(n[c])]]

\* A worker that has taken no job. own records whether the quads the
\* job's build_mesh has emitted so far are the quads of the job's chunk.
NoTask ==
    [pc |-> "wait", pos_y |-> 0, chunk |-> << >>, face |-> FACE_LEFT, w |-> 0,
     own |-> TRUE]

\* The quads of the layer w of a face of the chunk ch
OwnQuads(ch, face, w) ==
    LET a == FaceAxes(face, ch.size_y)
    IN  MeshLayer([i \in 1..(a.u_size * a.v_size) |-> AIR], ch, face, w).quads

\* The workers waiting for jobs, the mesher and the generator constructed
InitJobs ==
    /\ jobs = [t \in JobWorkerIds |-> NoTask]
    /\ height_cache = << >>

\* worker_thread: the job for the chunk at pos_y is taken and started
JobTake(t, pos_y) ==
    /\ jobs[t].pc = "wait"
    /\ \A o \in JobWorkerIds : jobs[o].pc = "wait" \/ jobs[o].pos_y # pos_y
    /\ jobs' = [jobs EXCEPT ![t] = [NoTask EXCEPT !.pc = "generate", !.pos_y = pos_y]]
    /\ UNCHANGED <<mask, mask_size, height_cache>>

\* The job's terrain_generator->generate_chunk(chunk): the heights of the
\* columns go through the cache (each access under cache_mutex); then
\* build_mesh starts, returning at once for a uniform AIR chunk
JobGenerate(t) ==
    /\ jobs[t].pc = "generate"
    /\ LET in == JobInput(jobs[t].pos_y)
           keys == {MakeCacheKey(c[1], c[2]) : c \in Columns}
           r == GenerateChunkResult(in)
           ch == ChunkOf(in.size_y, r.is_uniform, r.voxels[<<0, 0, 0>>], r.voxels)
       IN  /\ height_cache' =
                  [k \in DOMAIN height_cache \cup keys |->
                      IF k \in DOMAIN height_cache THEN height_cache[k]
                      ELSE in.height[CHOOSE c \in Columns : MakeCacheKey(c[1], c[2]) = k]]
           /\ jobs' = [jobs EXCEPT ![t].chunk = ch,
                                   ![t].pc = IF ch.is_uniform /\ ch.uniform_value = AIR
                                             THEN "post" ELSE "build"]
    /\ UNCHANGED <<mask, mask_size>>

\* The job's build_mesh, in greedy_mesh_face: the mask is resized (first
\* layer of a face), filled with AIR and built for the layer
JobBuildMask(t) ==
    /\ jobs[t].pc = "build"
    /\ LET a == FaceAxes(jobs[t].face, jobs[t].chunk.size_y)
           n == a.u_size * a.v_size
       IN  /\ mask' = BuildMask(FillMask(ResizeMask(mask, n), n),
                                jobs[t].chunk, jobs[t].face, jobs[t].w)
           /\ mask_size' = Len(mask')
    /\ jobs' = [jobs EXCEPT ![t].pc = "merge"]
    /\ UNCHANGED height_cache

\* The job's build_mesh, in greedy_mesh_face: the mask of the layer is
\* merged into quads and cleared; then the next layer or face, or the end
JobMergeLayer(t) ==
    /\ jobs[t].pc = "merge"
    /\ LET j == jobs[t]
           a == FaceAxes(j.face, j.chunk.size_y)
           r == GreedyMerge(mask, a.u_size, a.v_size, j.face, j.w, 0, 0, << >>)
           more == j.w + 1 < WMax(a.w_axis, j.chunk.size_y)
       IN  /\ mask' = r.mask
           /\ jobs' = [jobs EXCEPT ![t].own = j.own /\ r.quads = OwnQuads(j.chunk, j.face, j.w),
                                   ![t].w = IF more THEN j.w + 1 ELSE 0,
                                   ![t].face = IF more \/ j.face = FACE_FRONT
                                               THEN j.face ELSE j.face + 1,
                                   ![t].pc = IF ~more /\ j.face = FACE_FRONT
                                             THEN "post" ELSE "build"]
    /\ UNCHANGED <<mask_size, height_cache>>

\* The job's call_deferred("create_chunk_mesh_instance", pos, mesh); the
\* worker goes back to waiting
JobPost(t) ==
    /\ jobs[t].pc = "post"
    /\ jobs' = [jobs EXCEPT ![t].pc = "done"]
    /\ UNCHANGED <<mask, mask_size, height_cache>>

NextJobs ==
    \/ \E t \in JobWorkerIds, pos_y \in JobPositions :
          JobTake(t, pos_y) /\ UNCHANGED <<observerVars, storageVars, poolVars, worldVars, built, built_before, meshed_other, layer, quads, noise, lookers, returned, gen_in, gen_out>>
    \/ \E t \in JobWorkerIds :
          JobGenerate(t) /\ UNCHANGED <<observerVars, storageVars, poolVars, worldVars, built, built_before, meshed_other, layer, quads, noise, lookers, returned, gen_in, gen_out>>
    \/ \E t \in JobWorkerIds :
          JobBuildMask(t) /\ UNCHANGED <<observerVars, storageVars, poolVars, worldVars, built, built_before, meshed_other, layer, quads, noise, lookers, returned, gen_in, gen_out>>
    \/ \E t \in JobWorkerIds :
          JobMergeLayer(t) /\ UNCHANGED <<observerVars, storageVars, poolVars, worldVars, built, built_before, meshed_other, layer, quads, noise, lookers, returned, gen_in, gen_out>>
    \/ \E t \in JobWorkerIds :
          JobPost(t) /\ UNCHANGED <<observerVars, storageVars, poolVars, worldVars, built, built_before, meshed_other, layer, quads, noise, lookers, returned, gen_in, gen_out>>

(***************************************************************************)
(* Specifications                                                          *)
(***************************************************************************)
\* One VoxelData object, constructed; the pool is not used.
InitSpecVoxel == InitVoxel /\ InitPool /\ InitMesher /\ NoWorld /\ NoTerrain /\ NoObserver
SpecVoxel == InitSpecVoxel /\ [][NextVoxel]_vars

\* One TerrainGenerator, initialized, its height cache shared by the
\* threads that look heights up.
InitSpecCache == NoStorage /\ InitPool /\ InitMesher /\ NoWorld /\ InitCache /\ NoGenerate /\ NoJobsRunning /\ NoObserver
SpecCache == InitSpecCache /\ [][NextCache]_vars
\* The height cache, its threads and set_world_seed
InitSpecReseed == InitSpecCache /\ InitReseed
SpecReseed == InitSpecReseed /\ [][NextReseed]_vars

\* One TerrainGenerator and a chunk just constructed, to be generated.
InitSpecGenerate == NoStorage /\ InitPool /\ InitMesher /\ NoWorld /\ NoCache /\ InitGenerate /\ NoJobsRunning /\ NoObserver
SpecGenerate == InitSpecGenerate /\ [][NextGenerate]_vars

\* The world's generator and mesher, and the pool's workers running
\* the jobs generate_chunk_async submitted.
InitSpecJobs ==
    /\ NoStorage /\ InitPool /\ InitMesher /\ NoWorld /\ NoGenerate /\ InitJobs
    /\ NoObserver
    /\ noise = [c \in LookupCoords |-> 0]
    /\ lookers = [t \in LookerIds |-> NotLooking]
    /\ returned = [c \in LookupCoords |-> {}]
SpecJobs == InitSpecJobs /\ [][NextJobs]_vars

\* One ThreadPool object, constructed; no storage is used.
InitSpecPool == NoStorage /\ InitPool /\ InitMesher /\ NoWorld /\ NoTerrain /\ NoObserver
SpecPool == InitSpecPool /\ [][NextPool]_vars

\* One chunk's storage and one mesher, constructed.
InitSpecMesh == InitVoxel /\ InitPool /\ InitMesher /\ NoWorld /\ NoTerrain /\ NoObserver
SpecMesh == InitSpecMesh /\ [][NextMesh]_vars

\* The mesher inside greedy_mesh_face, the mask of a layer built.
InitSpecMerge == NoStorage /\ InitPool /\ InitMerge /\ NoWorld /\ NoTerrain /\ NoObserver
SpecMerge == InitSpecMerge /\ [][NextMerge]_vars

\* The mesher inside greedy_mesh_face, about to build the mask of a layer.
InitSpecMask == NoStorage /\ InitPool /\ InitMask /\ NoWorld /\ NoTerrain /\ NoObserver
SpecMask == InitSpecMask /\ [][NextMask]_vars

\* The world node after _ready, its pool started.
InitSpecWorld == NoStorage /\ InitWorld /\ InitWorldPool /\ InitMesher /\ NoTerrain /\ NoObserver
SpecWorld == InitSpecWorld /\ [][NextWorld]_vars

\* The same, the box of chunks among the configurations.
\* A running pool, its workers and the threads submitting to it
InitSpecPoolRun == NoStorage /\ InitPoolRun /\ InitMesher /\ NoWorld /\ NoTerrain /\ NoObserver
SpecPoolRun == InitSpecPoolRun /\ [][NextPoolRun]_vars

\* The operating system schedules every thread that can run: a call of
\* initialize, shutdown or submit_job runs to its end and every worker
\* thread keeps running. Nothing makes the caller call again.
CallerStep ==
    \/ \E n \in 0..MaxThreads : InitializeStart(n)
    \/ ShutdownPost
    \/ ShutdownJoin
    \/ ShutdownLock
    \/ ShutdownClear
    \/ SubmitCheckPending
    \/ SubmitLock
    \/ SubmitEnqueue
    \/ SubmitPost
SpecPoolFair ==
    /\ InitSpecPool
    /\ [][NextPool]_vars
    /\ WF_vars(CallerStep /\ UNCHANGED <<observerVars, submitters, executed, storageVars, mesherVars, worldVars, terrainVars>>)
    /\ \A w \in WorkerIds :
          WF_vars(PoolWorkerStep(w) /\ UNCHANGED <<observerVars, submitters, storageVars, mesherVars, worldVars, terrainVars>>)

\* An observer's position converted to its chunk
InitSpecObserver ==
    NoStorage /\ InitPool /\ InitMesher /\ NoWorld /\ NoTerrain /\ InitObserver
SpecObserver == InitSpecObserver /\ [][NextObserver]_vars

\* The world with clear_world among the calls of the main thread
NextWorldClear ==
    \/ NextWorld
    \/ ClearWorld /\ UNCHANGED <<observerVars, storageVars, mesherVars, terrainVars>>
SpecWorldClear == InitSpecWorld /\ [][NextWorldClear]_vars

InitSpecWorldBox == NoStorage /\ InitWorldBox /\ InitWorldPool /\ InitMesher /\ NoTerrain /\ NoObserver
SpecWorldBox == InitSpecWorldBox /\ [][NextWorld]_vars

\* The engine runs a frame after the other (_process, then the flush of
\* the deferred calls) and the operating system schedules every worker
\* thread that can run.
SpecWorldFair ==
    /\ InitSpecWorld
    /\ [][NextWorld]_vars
    /\ WF_vars(MainStep /\ UNCHANGED <<observerVars, storageVars, mesherVars, terrainVars>>)
    /\ \A w \in WorkerIds : WF_vars(WorkerStep(w) /\ UNCHANGED <<observerVars, storageVars, mesherVars, terrainVars>>)

(***************************************************************************)
(* Claims about VoxelData, checked under SpecVoxel.                        *)
(***************************************************************************)

\* The in-range coordinates of the storage: 0 <= x,z < XZ, 0 <= y < H.
Cells ==
    {c \in (0..(CHUNK_SIZE_XZ - 1)) \X (0..(chunk_size_y - 1)) \X (0..(CHUNK_SIZE_XZ - 1)) : TRUE}
\* The coordinates tried that are not in range.
OutOfRange ==
    {c \in CoordsXZ \X CoordsY \X CoordsXZ : c \notin Cells}
\* What get returns for an in-range coordinate.
CellValue(c) == GetVoxel(c[1], c[2], c[3])

\* C1: in every reachable state either is_uniform holds and no buffer is
\* allocated, or is_uniform is false and a buffer of XZ*XZ*H cells is
\* allocated.
C1_ExactlyOneRepresentation ==
    \/ is_uniform /\ data = NullPtr
    \/ /\ ~is_uniform
       /\ data # NullPtr
       /\ Len(data) = CHUNK_SIZE_XZ * CHUNK_SIZE_XZ * chunk_size_y

C1_Witness_DenseAfterStore ==
    /\ vlast.op = "set" /\ vlast.branch = "store"
    /\ ~is_uniform /\ Len(data) = CHUNK_SIZE_XZ * CHUNK_SIZE_XZ * chunk_size_y

\* C2: an optimize call leaves the storage uniform exactly when every
\* in-range cell held the same value before it, and get returns the same
\* value for every in-range coordinate after the call as before it.
C2_OptimizeUniformIffAllSame ==
    [][CheckAndOptimizeUniform =>
        /\ is_uniform' <=> (\A c, d \in Cells : CellValue(c) = CellValue(d))
        /\ \A c \in Cells : CellValue(c)' = CellValue(c)]_vars

C2_Witness_DenseBecameUniform ==
    vlast.op = "optimize" /\ vlast.branch = "freed" /\ is_uniform

\* C3: set(p, B) on a storage uniform with A # B, p in range, yields
\* get(p) = B and get(q) = A for every other in-range q.
C3_PromotionWritesOneCell ==
    [][\A p \in Cells, B \in Types :
        (is_uniform /\ B # uniform_value /\ SetVoxel(p[1], p[2], p[3], B)) =>
            /\ CellValue(p)' = B
            /\ \A q \in Cells \ {p} : CellValue(q)' = uniform_value]_vars

C3_Witness_PromotedFromNonAir ==
    /\ vlast.op = "set" /\ vlast.branch = "promote"
    /\ ~is_uniform /\ uniform_value # AIR

\* C4: after fill(T), on a uniform or a dense storage, every in-range get
\* returns T, the storage is uniform without a buffer, and the memory
\* footprint is that of a single value.
C4_FillRoundTrip ==
    vlast.op = "fill" =>
        /\ is_uniform /\ data = NullPtr
        /\ \A c \in Cells : CellValue(c) = vlast.val
        /\ GetMemoryUsage = SizeofVoxelTypeID

C4_Witness_FillOnDense ==
    vlast.op = "fill" /\ vlast.branch = "on_dense" /\ vlast.val # AIR

\* C5: for every storage state and every out-of-range coordinate, a read
\* through the storage's or the chunk's get returns AIR and reads no
\* index outside the buffer.
C5_OutOfRangeReadIsAir ==
    \A c \in OutOfRange :
        /\ GetVoxelOutcomes(c[1], c[2], c[3]) = {AIR}
        /\ ChunkGetVoxelOutcomes(TRUE, c[1], c[2], c[3]) = {AIR}
        /\ is_uniform \/ InBuffer(GetIndex(c[1], c[2], c[3]))

\* C6: set with an out-of-range coordinate leaves the storage unchanged:
\* same representation, same uniform value, same buffer (no step that
\* changes the storage is a set with an out-of-range coordinate).
C6_OutOfRangeWriteIsNoOp ==
    [][voxelVars' # voxelVars =>
        \A c \in OutOfRange, t \in Types : ~SetVoxel(c[1], c[2], c[3], t)]_vars

C6_Witness_OutOfRangeWriteOnDense ==
    vlast.op = "set" /\ vlast.branch = "oob" /\ ~is_uniform

(***************************************************************************)
(* Claims about ThreadPool, checked under SpecPool.                        *)
(***************************************************************************)

\* No worker thread of the pool is running.
NoWorkerRunning == \A w \in WorkerIds : workers[w] \in {"none", "exited"}

\* C7: when the pending counter has reached max_pending_jobs at submit's
\* capacity test, the call returns false in that very step (it never goes
\* on to wait for the mutex), the queue is unchanged and the pending
\* counter is not increased.
C7_FullQueueRejects ==
    [][(caller.pc = "s_pending" /\ pending_jobs >= max_pending_jobs
            /\ caller' # caller) =>
        /\ caller'.pc = "idle" /\ caller'.ret = "false"
        /\ job_queue' = job_queue
        /\ pending_jobs' = pending_jobs]_vars

C7_Witness_RejectedWhenFull ==
    /\ caller.pc = "idle" /\ caller.ret = "false"
    /\ num_threads > 0 /\ ~should_stop
    /\ job_queue # {} /\ pending_jobs >= max_pending_jobs

\* C8: whenever no worker is running, submit returns false: the call never
\* gets past its stop test to enqueue the job, and never returns true.
C8_StoppedPoolRejects ==
    NoWorkerRunning =>
        /\ caller.pc \notin {"s_lock", "s_enqueue", "s_post"}
        /\ ~(caller.pc = "idle" /\ caller.ret = "true")

C10_StopDiscardsQueuedJobs ==
    /\ (caller.pc = "idle" /\ caller.ret = "shutdown") =>
            (NoWorkerRunning /\ job_queue = {} /\ pending_jobs = 0)
    /\ \A w \in WorkerIds : workers[w] = "end" => wjob[w].id \notin queuedAtStop

(***************************************************************************)
(* Claims about VoxelWorld, checked under SpecWorld and SpecWorldFair.     *)
(***************************************************************************)

\* The chunk coordinates within the render distance of p horizontally and
\* within the vertical render distance of p vertically.
Box(p) ==
    {c \in ((p[1] - render_distance)..(p[1] + render_distance))
           \X ((p[2] - vertical_render_distance)..(p[2] + vertical_render_distance))
           \X ((p[3] - render_distance)..(p[3] + render_distance)) : TRUE}

\* C11: if the observer stays in the chunk p from some frame on (from the
\* start with an empty table, or after moving one chunk over), the keys of
\* the chunk table eventually equal exactly the box around p and stay so.
C11_TableConvergesToBox ==
    \A p \in PlayerChunks : <>[](player = p) => <>[](DOMAIN chunks = Box(p))

\* The observer has moved one chunk over, the chunk left behind by the old
\* box is gone and the table holds exactly the new box.
C11_Witness_NewBoxLoaded ==
    /\ player = <<0, 1, 0>>
    /\ last_player_chunk = player
    /\ main_pc = "idle"
    /\ vertical_render_distance = MaxVerticalDistance
    /\ DOMAIN chunks = Box(player)
    /\ \E call \in {installed[i] : i \in 1..Len(installed)} : call.pos \notin Box(<<0, 0, 0>>)

\* The calls a sequence of installation calls holds
CallsOf(calls) == {calls[i] : i \in 1..Len(calls)}

\* C12: when the deferred installation calls run on the main thread, a
\* call for a coordinate that is absent from the chunk table (it was
\* removed while its job was queued or running) neither recreates the
\* chunk entry nor leaves a render handle for the coordinate; and when
\* every call is for an absent coordinate both tables are unchanged.
C12_AbsentChunkNotInstalled ==
    [][(main_pc = "flush" /\ main_pc' = "idle") =>
          /\ \A call \in CallsOf(deferred) :
                call.pos \notin DOMAIN chunks =>
                    /\ call.pos \notin DOMAIN chunks'
                    /\ call.pos \notin DOMAIN chunk_mesh_instances'
          /\ (\A call \in CallsOf(deferred) : call.pos \notin DOMAIN chunks) =>
                UNCHANGED <<chunks, chunk_mesh_instances>>]_vars

\* An installation call carrying a mesh has run for a coordinate removed
\* from the table before the call was delivered.
C12_Witness_CallForRemovedChunk ==
    /\ main_pc = "idle"
    /\ \E call \in CallsOf(installed) :
          /\ ~call.is_null
          /\ ~call.live
          /\ call.pos \notin DOMAIN chunks
          /\ call.pos \notin DOMAIN chunk_mesh_instances

\* C13: in every frame the load phase creates and dispatches at most
\* max_chunks_per_frame chunks, however many coordinates of the box are
\* missing from the table.
C13_LoadCapPerFrame ==
    /\ Cardinality(loaded_this_frame) <= max_chunks_per_frame
    /\ chunks_generated_this_frame <= max_chunks_per_frame

\* The load phase has dispatched max_chunks_per_frame chunks and
\* coordinates of the box are still missing.
C13_Witness_CapCutsLoading ==
    /\ main_pc = "load"
    /\ Cardinality(loaded_this_frame) = max_chunks_per_frame
    /\ Box(last_player_chunk) \ DOMAIN chunks # {}

\* The coordinates of the column of chunks explored with threading
ColumnChunks == {<<0, y, 0>> : y \in (-MaxVerticalDistance)..(1 + MaxVerticalDistance)}

\* The chunk at c was created by the load phase but no job generates it:
\* the pool rejected the job (a chunk whose job was accepted has its job
\* in flight, or its installation call posted, or is no longer Generating).
Rejected(c) ==
    /\ c \in DOMAIN chunks
    /\ chunks[c].state = "GENERATING"
    /\ \A j \in JobsInFlight : ~(j.pos = c /\ j.live)
    /\ \A call \in CallsOf(deferred) : ~(call.pos = c /\ call.live)

\* C14: a chunk whose generation job the pool rejected is requested again
\* on a later frame while it is in range: it is eventually generated (and
\* becomes Active), unless it leaves the table first.
C14_RejectedJobRetried ==
    \A c \in ColumnChunks :
        Rejected(c) ~> (c \notin DOMAIN chunks \/ chunks[c].state = "ACTIVE")

\* C15: in a frame in which no player node is resolved the load and
\* unload phases create no chunk, submit no job and unload nothing.
C15_NoObserverNoOp ==
    [][(player = NoPlayer /\ main_pc = "load") =>
          UNCHANGED <<chunks, chunk_mesh_instances, children, job_queue>>]_vars

\* C16: a chunk whose job is generating on a worker is Generating, a
\* chunk whose job is meshing on a worker is Meshing: it becomes Active
\* only when the installation step runs on the main thread, after its job.
C16_ActiveOnlyAtInstall ==
    \A w \in WorkerIds :
        (wjob[w] # NoJob /\ wjob[w].live) =>
            /\ workers[w] = "generate" => chunks[wjob[w].pos].state = "GENERATING"
            /\ workers[w] = "mesh" => chunks[wjob[w].pos].state = "MESHING"

\* C17: after the installation step has run with a null mesh for a
\* coordinate of the chunk table (as its last call for that coordinate),
\* no render handle is recorded for the coordinate and the chunk is Active.
C17_NullMeshLeavesNoHandle ==
    \A i \in 1..Len(installed) :
        (/\ installed[i].is_null
         /\ installed[i].pos \in DOMAIN chunks
         /\ \A k \in (i + 1)..Len(installed) : installed[k].pos # installed[i].pos) =>
            /\ installed[i].pos \notin DOMAIN chunk_mesh_instances
            /\ chunks[installed[i].pos].state = "ACTIVE"

(***************************************************************************)
(* Claims about ChunkMeshBuilder, checked under SpecMesh and SpecMerge.    *)
(***************************************************************************)

\* C18: two consecutive build_mesh calls on the chunk that find the same
\* voxels in it return the same quads (count, positions, sizes, faces and
\* block types), whatever other chunks the mesher built in between.
C18_MeshDependsOnVoxelsOnly ==
    (built.called /\ built_before.called /\ built.voxels = built_before.voxels) =>
        built.mesh = built_before.mesh

\* The chunk was meshed, another chunk was meshed by the same mesher, and
\* the chunk, unmodified, was meshed again into a mesh with quads.
C18_Witness_RebuiltAfterOther ==
    /\ built.called /\ built_before.called
    /\ built.after_other
    /\ built.voxels = built_before.voxels
    /\ ~built.mesh.is_null
    /\ Len(built.mesh.quads) > 1

\* The mask cell of (u, v) in a layer u_size wide
MaskCell(m, u, v, u_size) == m[u + v * u_size + 1]

\* The mask m of a u_size by v_size layer holds the block type t in the
\* rectangle of origin (u0, v0), width wd and height ht, and AIR elsewhere.
IsRectangle(m, u_size, v_size, u0, v0, wd, ht, t) ==
    \A u \in 0..(u_size - 1), v \in 0..(v_size - 1) :
        MaskCell(m, u, v, u_size) =
            IF u \in u0..(u0 + wd - 1) /\ v \in v0..(v0 + ht - 1) THEN t ELSE AIR

\* The rectangles (origin, width, height) that fit in a layer
RectanglesIn(u_size, v_size) ==
    {r \in [u0 : 0..(u_size - 1), v0 : 0..(v_size - 1), wd : 1..u_size, ht : 1..v_size] :
        r.u0 + r.wd <= u_size /\ r.v0 + r.ht <= v_size}

\* C19: when the mask of a layer holds exactly one rectangle of one block
\* type and AIR elsewhere, the greedy merge emits exactly one quad, with
\* the origin, the width, the height and the type of the rectangle.
C19_OneRectangleOneQuad ==
    layer.merged =>
        LET u_size == FaceAxes(layer.face, layer.size_y).u_size
            v_size == FaceAxes(layer.face, layer.size_y).v_size
        IN  \A r \in RectanglesIn(u_size, v_size), t \in Types \ {AIR} :
                IsRectangle(layer.input, u_size, v_size, r.u0, r.v0, r.wd, r.ht, t) =>
                    /\ Len(quads) = 1
                    /\ quads[1].u = r.u0 /\ quads[1].v = r.v0
                    /\ quads[1].width = r.wd /\ quads[1].height = r.ht
                    /\ quads[1].type = t

\* A rectangle wider than one cell, away from the first row of a layer it
\* does not fill, was merged into one quad.
C19_Witness_WideRectangleMerged ==
    /\ layer.merged
    /\ Len(quads) = 1
    /\ quads[1].width > 1
    /\ quads[1].v > 0
    /\ \E i \in 1..Len(layer.input) : layer.input[i] = AIR

\* C20: build_mesh on a chunk whose storage is uniform AIR returns no mesh
\* and sweeps no layer; and build_mesh never returns a mesh without quads:
\* a chunk that holds only AIR (uniform or dense) gets no mesh.
C20_NoQuadsNoMesh ==
    built.called =>
        /\ built.uniform_air => (built.mesh.is_null /\ built.layers = 0)
        /\ ~built.mesh.is_null => built.mesh.quads # << >>
        /\ (\A c \in DOMAIN built.voxels : built.voxels[c] = AIR) => built.mesh.is_null

\* A dense storage holding only AIR was meshed: its layers were swept, no
\* quad was produced and no mesh was returned.
C20_Witness_DenseAirNoMesh ==
    /\ built.called
    /\ ~built.uniform_air
    /\ \A c \in DOMAIN built.voxels : built.voxels[c] = AIR
    /\ built.layers > 0
    /\ built.mesh.is_null

(***************************************************************************)
(* Claims about TerrainGenerator's height cache, checked under SpecCache.  *)
(***************************************************************************)
\* C21: with the seed and the frequency fixed, get_height_at(x, z) returns
\* the same value on every call, whatever other lookups were made before
\* and whether or not the cache was cleared in between.
C21_HeightSameOnEveryCall ==
    \A c \in LookupCoords : Cardinality(returned[c]) <= 1

\* C22: the cache key packs (wx, wz) without loss, negative coordinates
\* included, so that every value get_height_at(x, z) returns is
\* base_height + noise2d(x, z) * max_height_variation of that (x, z),
\* never a height cached for another coordinate.
C22_ReturnsOwnHeight ==
    \A c \in LookupCoords :
        returned[c] \subseteq {HeightFrom(noise[c])}

(***************************************************************************)
(* Claims about generate_chunk, checked under SpecGenerate.                *)
(***************************************************************************)
\* C23: when generate_chunk does not take the early exit, the cells follow
\* the column rule; in particular every column whose surface height lies
\* inside the chunk's Y span contains its classified surface block.
C23_SurfaceBlockInColumn ==
    (gen_out # NotGenerated /\ ~gen_out.early) =>
        \A c \in Columns :
            LET y_base == gen_in.pos_y * gen_in.size_y
                h == gen_in.height[c]
            IN  (HeightScale * y_base <= h /\ h < HeightScale * (y_base + gen_in.size_y)) =>
                    \E y \in 0..(gen_in.size_y - 1) :
                        gen_out.voxels[<<c[1], y, c[2]>>] =
                            GetSurfaceBlock(h, gen_in.noise_value[c])

(***************************************************************************)
(* Claims about the jobs sharing the generator and the mesher, checked     *)
(* under SpecJobs.                                                         *)
(***************************************************************************)
\* The worker is inside greedy_mesh_face, where it writes and reads the
\* mesher's mask without holding any lock
InMaskCode(t) == jobs[t].pc \in {"build", "merge"}

\* Every job so far got from build_mesh the quads of its own chunk
JobsMeshOwnChunk == \A t \in JobWorkerIds : jobs[t].own

\* C24: with two or more workers running generation+meshing jobs at the
\* same time, the height cache (accessed under its mutex) is the only data
\* structure more than one worker writes: no two workers are at once in
\* code that writes the shared mesher's scratch mask.
C24_OnlyCacheWrittenByWorkers ==
    \A t1, t2 \in JobWorkerIds :
        t1 # t2 => ~(InMaskCode(t1) /\ InMaskCode(t2))

(***************************************************************************)
(* Claims about the streaming of chunks, checked under SpecWorldBox.       *)
(***************************************************************************)
\* The horizontal ring around the chunk c the coordinate p lies on
RingOf(p, c) ==
    IF Abs(p[1] - c[1]) >= Abs(p[3] - c[3]) THEN Abs(p[1] - c[1]) ELSE Abs(p[3] - c[3])

\* C25: the load phase requests missing chunks center-outward: whenever
\* a coordinate is requested, no missing in-range coordinate lies on a
\* smaller horizontal ring around the observer's chunk, whatever its
\* vertical offset (so the observer's own chunk is among the first
\* requested).
C25_RequestsCenterOutward ==
    [][main_pc = "load" =>
          \A p \in DOMAIN chunks' \ DOMAIN chunks :
              \A q \in Box(last_player_chunk) \ DOMAIN chunks :
                  RingOf(p, last_player_chunk) <= RingOf(q, last_player_chunk)]_vars

\* C26: a coordinate generate_chunk_async is called with is not a key of
\* the chunk table (so between its insertion and its removal at most one
\* dispatch is made for it), it is a key after the call, and with
\* threading its chunk is Generating and the job submitted is for it.
C26_DispatchedOncePerInsertion ==
    [][chunks_generated_this_frame' = chunks_generated_this_frame + 1 =>
          /\ Cardinality(DOMAIN chunks' \ DOMAIN chunks) = 1
          /\ \A j \in job_queue' \ job_queue : j.pos \in DOMAIN chunks' \ DOMAIN chunks
          /\ use_threading =>
                \A pos \in DOMAIN chunks' \ DOMAIN chunks : chunks'[pos].state = "GENERATING"]_vars

\* A job is queued for a chunk dispatched in this load phase
C26_Witness_JobQueuedForNewKey ==
    \E j \in job_queue :
        /\ j.pos \in loaded_this_frame
        /\ j.pos \in DOMAIN chunks /\ chunks[j.pos].state = "GENERATING"

\* C27: at the end of a tick's unload phase every coordinate left in the
\* chunk table, and every coordinate with a render handle, is within the
\* render distance (|dx|, |dz|) and the vertical render distance (|dy|) of
\* the observer's chunk, however many coordinates were out of range.
C27_OnlyInRangeAfterUnload ==
    main_pc = "flush" =>
        LET center == IF player = NoPlayer THEN last_player_chunk ELSE player
        IN  \A pos \in DOMAIN chunks \cup DOMAIN chunk_mesh_instances :
                /\ Abs(pos[1] - center[1]) <= render_distance
                /\ Abs(pos[3] - center[3]) <= render_distance
                /\ Abs(pos[2] - center[2]) <= vertical_render_distance

\* The unload phase has ended, chunks are left in the table and a job is
\* in flight for a chunk that was removed
C27_Witness_RemovedAndKept ==
    /\ main_pc = "flush"
    /\ DOMAIN chunks # {}
    /\ \E j \in JobsInFlight : ~j.live /\ j.pos \notin DOMAIN chunks

(***************************************************************************)
(* Further claims about VoxelData, checked under SpecVoxel.                *)
(***************************************************************************)
\* C28: check_and_optimize_uniform on a dense storage returns true,
\* switches to uniform with the first cell's value and frees the buffer
\* exactly when every cell equals the first cell; otherwise it returns
\* false and leaves the representation, the buffer and the uniform value
\* as they were.
C28_OptimizeDenseBothWays ==
    [][(~is_uniform /\ data # NullPtr /\ CheckAndOptimizeUniform) =>
          IF \A i \in 1..total_voxels : data[i] = data[1]
          THEN /\ vlast'.ret = TRUE
               /\ is_uniform' /\ uniform_value' = data[1] /\ data' = NullPtr
          ELSE /\ vlast'.ret = FALSE
               /\ ~is_uniform' /\ uniform_value' = uniform_value /\ data' = data]_vars

\* The call was made on a dense storage holding two different values
C28_Witness_MixedLeftDense ==
    /\ vlast.op = "optimize" /\ vlast.ret = FALSE
    /\ ~is_uniform /\ \E i \in 1..total_voxels : data[i] # data[1]

(***************************************************************************)
(* Claims about the mask of a layer and its merge, checked under SpecMask.  *)
(***************************************************************************)
\* The direction a face looks in
FaceNormal(face) ==
    IF face = FACE_LEFT THEN <<-1, 0, 0>>
    ELSE IF face = FACE_RIGHT THEN <<1, 0, 0>>
    ELSE IF face = FACE_DOWN THEN <<0, -1, 0>>
    ELSE IF face = FACE_UP THEN <<0, 1, 0>>
    ELSE IF face = FACE_BACK THEN <<0, 0, -1>>
    ELSE <<0, 0, 1>>

\* The voxel c of the chunk shows its face: it is not empty and the cell
\* next to it in the face's direction is outside the chunk, or empty, or
\* of a transparent type
FaceShows(vox, size_y, c, face) ==
    LET n == <<c[1] + FaceNormal(face)[1], c[2] + FaceNormal(face)[2],
               c[3] + FaceNormal(face)[3]>>
    IN  /\ vox[c] # AIR
        /\ \/ n \notin ChunkCells(size_y)
           \/ vox[n] = AIR
           \/ IsTransparent(vox[n])

QuadCells(q) == (q.u..(q.u + q.width - 1)) \X (q.v..(q.v + q.height - 1))

\* The cells of the quads emitted before the k-th one
CellsBefore(k) == UNION {QuadCells(quads[i]) : i \in 1..(k - 1)}

C31_MainLeavesJobChunkAlone ==
    [][\A pos \in EditChunks, solid \in BOOLEAN :
          SetVoxelAt(pos, solid) =>
              ~\E j \in JobsInFlight : j.live /\ j.pos = pos]_vars

\* C32: in every state reached by ticks, mesh installations, voxel edits
\* and clear_world, every coordinate of the render-handle table is a key of
\* the chunk table, and there is at most one live render handle per
\* coordinate: the mesh nodes in the scene are exactly the handles the table
\* holds, one for each of its coordinates (a replaced or erased handle is
\* freed).
C32_HandlesOfLoadedChunksOnly ==
    /\ DOMAIN chunk_mesh_instances \subseteq DOMAIN chunks
    /\ DOMAIN children = DOMAIN chunk_mesh_instances
    /\ \A pos \in DOMAIN children : children[pos] = 1

\* A handle was replaced by a voxel edit, the world was cleared while another
\* chunk had its handle, and a chunk was given a handle again after that.
C32_Witness_ReplacedAndCleared ==
    /\ chunk_mesh_instances # EmptyTable
    /\ \E pos \in DOMAIN chunks : pos \notin DOMAIN chunk_mesh_instances
    /\ \E j \in JobsInFlight : ~j.live
    /\ Len(installed) = 1 /\ installed[1].pos \in DOMAIN chunk_mesh_instances

\* C33: every mesh installed for a coordinate was built from the chunk
\* object that is in the chunk table at that coordinate at installation
\* time: the result of a job whose chunk was unloaded, and the coordinate
\* loaded again, while the job was in flight is not installed onto the newer
\* chunk.
C33_MeshOfTheChunkInTheTable ==
    \A pos \in DOMAIN chunk_mesh_instances : chunk_mesh_instances[pos].live

(***************************************************************************)
(* Further claims about ThreadPool, checked under SpecPoolFair and         *)
(* SpecPoolRun.                                                            *)
(***************************************************************************)
\* Job i is in the queue
Queued(i) == \E j \in job_queue : j.id = i

\* C34: under fair scheduling every job accepted by submit_job is eventually
\* executed by a worker or discarded by shutdown(): no accepted job stays in
\* the queue forever.
C34_AcceptedJobLeavesQueue ==
    \A i \in JobIds : Queued(i) ~> ~Queued(i)

\* C35: for any interleaving of concurrent submit_job calls and worker
\* dequeues, the number of queued jobs never exceeds max_pending_jobs, and
\* whenever the queue mutex is free the pending counter equals the number
\* of jobs in the queue.
C35_QueueWithinCapAndCounted ==
    /\ Cardinality(job_queue) <= max_pending_jobs
    /\ queue_mutex = Free => pending_jobs = Cardinality(job_queue)

\* C36: for any number of workers and any interleaving, the task of each
\* accepted job is executed at most once and by a single worker, and the
\* active-job counter never exceeds the number of worker threads and is 0
\* when all workers are idle.
C36_ExecutedOnceCounterBounded ==
    /\ \A i \in JobIds : executed[i] <= 1
    /\ \A w1, w2 \in RunWorkerIds :
          (w1 # w2 /\ wjob[w1] # NoJob) => wjob[w1].id # wjob[w2].id
    /\ \A w \in RunWorkerIds : wjob[w] # NoJob => ~Queued(wjob[w].id)
    /\ active_jobs <= num_threads
    /\ (\A w \in RunWorkerIds : workers[w] \notin {"end"}) => active_jobs = 0

\* A pool of two workers has executed two jobs and no task is running; one
\* worker has taken another job it has not started.
C36_Witness_TwoRanOneTaken ==
    /\ num_threads = 2
    /\ Cardinality({i \in JobIds : executed[i] = 1}) = 2
    /\ \E w \in RunWorkerIds : workers[w] = "begin"
    /\ \A w \in RunWorkerIds : workers[w] # "end"
    /\ active_jobs = 0

(***************************************************************************)
(* A further claim about the height cache, checked under SpecReseed.       *)
(***************************************************************************)
\* C37: after a reseed (initialize(seed), which clears the cache) every
\* entry of the height cache was computed with the current seed, also when
\* threads are inside get_height_at while the reseed runs: the height of an
\* entry is the height the current noise gives for a coordinate of its key.
C37_CacheOfCurrentSeed ==
    \A key \in DOMAIN height_cache :
        \E c \in LookupCoords :
            /\ MakeCacheKey(c[1], c[2]) = key
            /\ height_cache[key] = HeightFrom(noise[c])

(***************************************************************************)
(* A claim about world_to_chunk_pos, checked under SpecObserver.           *)
(***************************************************************************)
\* The world-space box of the chunk c contains the position p: the box starts
\* at the origin Chunk::initialize computes for c and extends
\* CHUNK_SIZE_XZ x H(c) x CHUNK_SIZE_XZ, H(c) the height c is created with
InBoxOf(p, c) ==
    LET origin == ChunkWorldPosition(c, ChunkHeightAt(c))
    IN  /\ PosScale * origin[1] <= p[1]
        /\ p[1] < PosScale * (origin[1] + CHUNK_SIZE_XZ)
        /\ PosScale * origin[2] <= p[2]
        /\ p[2] < PosScale * (origin[2] + ChunkHeightAt(c))
        /\ PosScale * origin[3] <= p[3]
        /\ p[3] < PosScale * (origin[3] + CHUNK_SIZE_XZ)

\* C38: for every observer position p, negative coordinates and heights near
\* a zone boundary included, the chunk coordinate world_to_chunk_pos(p)
\* returns is the one whose world-space box contains p (so that positions
\* in different boxes never get the same coordinate).
C38_PositionInItsChunkBox ==
    observer_chunk # NoChunkPos => InBoxOf(observer, observer_chunk)

(***************************************************************************)
(* A further claim about generate_chunk, checked under SpecGenerate.       *)
(***************************************************************************)
\* C39: whenever generate_chunk takes the early exit (every sampled column
\* has its height below the chunk's world-Y base), the uniform-empty chunk
\* it leaves has the voxels the full per-column pass would have produced:
\* every cell holds the type the column rule gives for it.
C39_EarlyExitSameAsFullPass ==
    (gen_out # NotGenerated /\ gen_out.early) =>
        \A p \in GenCells(gen_in) :
            gen_out.voxels[p] = VoxelTypeOf(gen_in.pos_y * gen_in.size_y + p[2],
                                            gen_in.height[<<p[1], p[3]>>],
                                            gen_in.noise_value[<<p[1], p[3]>>])

=============================================================================
